---- MODULE Spec2Model ----
(***************************************************************************)
(* Pipeline-parallel schedules of torch/distributed/pipelining/            *)
(* PipelineSchedule.py: ScheduleGPipe, Schedule1F1B, ScheduleLoopedBFS and *)
(* ScheduleInterleaved1F1B.  One schedule object runs on every rank of the *)
(* pipeline group; the ranks exchange activations and gradients through    *)
(* batched point-to-point operations.                                      *)
(***************************************************************************)
EXTENDS Integers, Sequences, FiniteSets, TLC

(* ------------------------------ bounds -------------------------------- *)
\* ranks of the pipeline group that execute a schedule
MaxRanks == 3
\* microbatches of GPipe, 1F1B and Looped BFS
MaxMicrobatches == 4
\* local stages per rank of the multi-stage schedules
MaxLocalStages == 2
\* Interleaved 1F1B runs n_microbatches = pp_group_size * k, k in 1..MaxRounds
MaxRounds == 2
\* ranks for which the Interleaved 1F1B constructor alone is explored
MaxPlanRanks == 5
\* forward slots in one row of an executed Interleaved 1F1B plan
\* (n_microbatches * n_local_stages)
MaxStageRuns == 12
\* stages and microbatches for which the step counts of 1F1B alone are
\* explored
MaxCountStages == 4
MaxCountMicrobatches == 8
\* ranks and container lengths for which the argument checks at the entry
\* of _step_microbatches are explored
MaxInputRanks == 2
MaxInputLen == 2
\* ranks and microbatches for which the constructors of the multi-stage
\* schedules are explored from their first line
MaxCtorRanks == 3
MaxCtorMicrobatches == 6
\* _sorted_batch_p2p alone: ranks of the group, length of p2p_ops
MaxBatchRanks == 3
MaxBatchOps == 3
\* the loss bookkeeping alone: ranks, local stages, length of the lists
MaxLossRanks == 2
MaxLossStages == 2
MaxLossLen == 2
\* one step() call of each schedule: ranks, microbatches
MaxStepRanks == 2
MaxStepMicrobatches == 4
\* step() calls in a row, some ending with an exception: calls, ranks,
\* microbatches
MaxStepCalls == 2
MaxAgainRanks == 1
MaxAgainMicrobatches == 2

VARIABLES
    sched,              \* class of the schedule object
    pp_group_size,      \* stages[0].group_size
    n_local_stages,     \* len(stages); 1 for the single-stage schedules
    n_microbatches,     \* self._n_microbatches
    has_backward,       \* self._has_backward (loss_fn is not None)
    losses_given,       \* the caller passed a losses list
    \* ---- arguments of _step_microbatches ----
    arg_mbs,            \* None, or a container with a type and a length
    kwarg_mbs,
    target_mbs,
    losses_type,        \* "None", "list", or "other" for a non-list
    \* ---- the stage objects handed to the constructor ----
    group_rank,         \* stages[0].group_rank
    stage_has_backward, \* per stage of the list: its has_backward flag
    \* ---- a schedule object built before, on another rank ----
    other_pipeline_order,
    \* ---- one call of _sorted_batch_p2p ----
    p2p_ops,            \* the argument p2p_ops
    batch_calls,        \* the _batch_p2p calls made, in call order
    work_by_peer,       \* the returned dict
    \* ---- the value a call under observation gave back, per rank ----
    returned,
    step_calls,         \* per rank: the step() calls begun so far
    \* ---- ScheduleInterleaved1F1B.__init__ ----
    plan_pc,            \* position of the constructor
    plan_rank,          \* loop variable `rank` of __init__
    plan_step,          \* loop variable `step`
    rank_ops,           \* row under construction
    fwd_stage_mb_index, \* defaultdict(int)
    bwd_stage_mb_index, \* defaultdict(int)
    pipeline_order,     \* self.pipeline_order
    \* ---- _step_microbatches, one per rank ----
    pc,                 \* position of each rank in _step_microbatches
    step_i,             \* loop variable i / time_step
    stage_k,            \* position in `for stage in self._stages`
    bwd_mb_index,       \* bwd chunk counter of Schedule1F1B
    waiting,            \* P2P ops whose work the rank is wait()ing for
    fwd_sends_to_wait,  \* deferred forward send works
    bwd_sends_to_wait,  \* deferred backward send works
    internal_losses,    \* self._internal_losses
    losses,             \* the caller's losses container
    \* ---- stages and transport ----
    trace,              \* per stage: the calls made on the stage object
    sends,              \* per (src, dst): the sends src posted towards dst
    recvs,              \* per (src, dst): the recvs dst posted from src
    batch_sizes         \* the sizes of the op lists handed to the transport

inputVars == <<arg_mbs, kwarg_mbs, target_mbs, losses_type>>
ctorVars == <<group_rank, stage_has_backward, other_pipeline_order>>
batchVars == <<p2p_ops, batch_calls, work_by_peer>>
callVars == <<returned, step_calls>>
cfgVars  == <<sched, pp_group_size, n_local_stages, n_microbatches,
              has_backward, losses_given, inputVars, ctorVars,
              batchVars, callVars>>
planVars == <<plan_pc, plan_rank, plan_step, rank_ops, fwd_stage_mb_index,
              bwd_stage_mb_index, pipeline_order>>
rankVars == <<pc, step_i, stage_k, bwd_mb_index, waiting, fwd_sends_to_wait,
              bwd_sends_to_wait, internal_losses, losses>>
netVars  == <<trace, sends, recvs, batch_sizes>>
vars     == <<cfgVars, planVars, rankVars, netVars>>

(* ------------------------------ helpers ------------------------------- *)
Min(a, b) == IF a <= b THEN a ELSE b

Ranks  == 0 .. (pp_group_size - 1)
num_stages == pp_group_size * n_local_stages
Stages == 0 .. (num_stages - 1)

\* the timeline slot None
NoOp == [type |-> "None", mb |-> -1, stage |-> -1]
FORWARD  == "FORWARD"
BACKWARD == "BACKWARD"
Slot(t, mb, s) == [type |-> t, mb |-> mb, stage |-> s]

RECURSIVE Nones(_)
Nones(n) == IF n <= 0 THEN <<>> ELSE <<NoOp>> \o Nones(n - 1)

(* ------------- ScheduleInterleaved1F1B: the planner ------------------- *)
\* variant: the warmup of a rank with a single local stage
get_rank_warmup_steps_single(rank) ==
    Min(2 * ((pp_group_size - 1) - rank),
        n_microbatches * n_local_stages)

get_rank_warmup_steps(rank) ==
    Min((n_local_stages - 1) * pp_group_size
            + 2 * ((pp_group_size - 1) - rank),
        n_microbatches * n_local_stages)

warmup_steps(rank)   == get_rank_warmup_steps(rank)
fwd_bwd_steps(rank)  == (n_local_stages * n_microbatches) - warmup_steps(rank)
cooldown_steps(rank) == (n_local_stages * n_microbatches) - fwd_bwd_steps(rank)
plan_total_steps(rank) ==
    warmup_steps(rank) + fwd_bwd_steps(rank) + cooldown_steps(rank)

\* variant: the stage is taken from the rank of the object, not of the row
forward_stage_index_own(step, rank) ==
    LET local_index == (step \div pp_group_size) % n_local_stages
    IN  (local_index * pp_group_size) + group_rank

forward_stage_index(step, rank) ==
    LET local_index == (step \div pp_group_size) % n_local_stages
    IN  (local_index * pp_group_size) + rank

backward_stage_index(step, rank) ==
    LET local_index ==
            n_local_stages - 1
            - (((step - warmup_steps(rank)) \div pp_group_size)
                    % n_local_stages)
    IN  (local_index * pp_group_size) + rank

\* variant: every rank waits two slots after its warmup
post_warmup_steps_all(rank) == 2

post_warmup_steps(rank) == IF rank = 0 THEN 2 ELSE 0


\* variant: the counter of the stage is read but not advanced
assign_mb_index_stuck(counter, stage_index) ==
    [counter EXCEPT ![stage_index] = counter[stage_index]]

\* counter[stage_index] = (mb_index := counter[stage_index]) + 1
assign_mb_index(counter, stage_index) ==
    [counter EXCEPT ![stage_index] = counter[stage_index] + 1]

\* assert warmup_steps + fwd_bwd_steps * 2 + cooldown_steps
\*        == self.n_local_stages * self._n_microbatches * 2
steps_add_up(rank) ==
    warmup_steps(rank) + fwd_bwd_steps(rank) * 2 + cooldown_steps(rank)
        = n_local_stages * n_microbatches * 2

\* for rank in range(self.pp_group_size): entry of
\* _calculate_single_rank_operations with the assertion and the
\* pre-padding
PlanBeginRank ==
    /\ plan_pc = "begin"
    /\ plan_rank < pp_group_size
    /\ rank_ops' = Nones(plan_rank)
    /\ fwd_stage_mb_index' = [s \in Stages |-> 0]
    /\ bwd_stage_mb_index' = [s \in Stages |-> 0]
    /\ plan_step' = 0
    /\ plan_pc' = IF steps_add_up(plan_rank) THEN "steps"
                                             ELSE "AssertionError"
    /\ UNCHANGED <<plan_rank, pipeline_order>>
    /\ UNCHANGED <<cfgVars, rankVars, netVars>>

\* step < warmup_steps
PlanWarmupStep ==
    /\ plan_pc = "steps"
    /\ plan_step < plan_total_steps(plan_rank)
    /\ plan_step < warmup_steps(plan_rank)
    /\ LET fwd_stage_index == forward_stage_index(plan_step, plan_rank)
           mb_index == fwd_stage_mb_index[fwd_stage_index]
       IN  /\ fwd_stage_mb_index' =
                 assign_mb_index(fwd_stage_mb_index, fwd_stage_index)
           /\ rank_ops' =
                 Append(rank_ops, Slot(FORWARD, mb_index, fwd_stage_index))
                 \o (IF plan_step = warmup_steps(plan_rank) - 1
                     THEN Nones(post_warmup_steps(plan_rank))
                     ELSE <<>>)
    /\ plan_step' = plan_step + 1
    /\ UNCHANGED <<plan_pc, plan_rank, bwd_stage_mb_index, pipeline_order>>
    /\ UNCHANGED <<cfgVars, rankVars, netVars>>

\* warmup_steps <= step < warmup_steps + fwd_bwd_steps
Plan1F1BStep ==
    /\ plan_pc = "steps"
    /\ plan_step < plan_total_steps(plan_rank)
    /\ warmup_steps(plan_rank) <= plan_step
    /\ plan_step < warmup_steps(plan_rank) + fwd_bwd_steps(plan_rank)
    /\ LET fwd_stage_index == forward_stage_index(plan_step, plan_rank)
           fwd_mb_index == fwd_stage_mb_index[fwd_stage_index]
           bwd_stage_index == backward_stage_index(plan_step, plan_rank)
           bwd_index == bwd_stage_mb_index[bwd_stage_index]
       IN  /\ fwd_stage_mb_index' =
                 assign_mb_index(fwd_stage_mb_index, fwd_stage_index)
           /\ bwd_stage_mb_index' =
                 assign_mb_index(bwd_stage_mb_index, bwd_stage_index)
           /\ rank_ops' = rank_ops
                 \o << Slot(FORWARD, fwd_mb_index, fwd_stage_index),
                       Slot(BACKWARD, bwd_index, bwd_stage_index) >>
    /\ plan_step' = plan_step + 1
    /\ UNCHANGED <<plan_pc, plan_rank, pipeline_order>>
    /\ UNCHANGED <<cfgVars, rankVars, netVars>>

\* cooldown: a no-op, then one backward
PlanCooldownStep ==
    /\ plan_pc = "steps"
    /\ plan_step < plan_total_steps(plan_rank)
    /\ plan_step >= warmup_steps(plan_rank) + fwd_bwd_steps(plan_rank)
    /\ LET bwd_stage_index == backward_stage_index(plan_step, plan_rank)
           bwd_index == bwd_stage_mb_index[bwd_stage_index]
       IN  /\ bwd_stage_mb_index' =
                 assign_mb_index(bwd_stage_mb_index, bwd_stage_index)
           /\ rank_ops' = rank_ops
                 \o << NoOp, Slot(BACKWARD, bwd_index, bwd_stage_index) >>
    /\ plan_step' = plan_step + 1
    /\ UNCHANGED <<plan_pc, plan_rank, fwd_stage_mb_index, pipeline_order>>
    /\ UNCHANGED <<cfgVars, rankVars, netVars>>

\* post padding, return rank_ops, self.pipeline_order.append(rank_ops)
PlanEndRank ==
    /\ plan_pc = "steps"
    /\ plan_step = plan_total_steps(plan_rank)
    /\ pipeline_order' =
          Append(pipeline_order,
                 rank_ops \o Nones(pp_group_size - plan_rank - 1))
    /\ plan_rank' = plan_rank + 1
    /\ plan_pc' = IF plan_rank + 1 < pp_group_size THEN "begin" ELSE "done"
    /\ rank_ops' = <<>>
    /\ UNCHANGED <<plan_step, fwd_stage_mb_index, bwd_stage_mb_index>>
    /\ UNCHANGED <<cfgVars, rankVars, netVars>>

PlanNext ==
    \/ PlanBeginRank
    \/ PlanWarmupStep
    \/ Plan1F1BStep
    \/ PlanCooldownStep
    \/ PlanEndRank


(* ------------------------- the stage objects -------------------------- *)
\* rank r owns the stages k * pp_group_size + r
RankOfStage(s) == s % pp_group_size
StagesOf(r) == [k \in 1 .. n_local_stages |-> (k - 1) * pp_group_size + r]
is_first(s) == s = 0
is_last(s)  == s = num_stages - 1

P2POp(kind, peer, what, from, to) ==
    [kind |-> kind, peer |-> peer, what |-> what, from |-> from, to |-> to]

get_fwd_recv_ops(s) ==
    IF is_first(s) THEN <<>>
    ELSE << P2POp("recv", RankOfStage(s - 1), "fwd", s - 1, s) >>

get_fwd_send_ops(s) ==
    IF is_last(s) THEN <<>>
    ELSE << P2POp("send", RankOfStage(s + 1), "fwd", s, s + 1) >>

get_bwd_recv_ops(s) ==
    IF is_last(s) THEN <<>>
    ELSE << P2POp("recv", RankOfStage(s + 1), "bwd", s + 1, s) >>

get_bwd_send_ops(s) ==
    IF is_first(s) THEN <<>>
    ELSE << P2POp("send", RankOfStage(s - 1), "bwd", s, s - 1) >>

\* the calls a schedule makes on a stage object, as recorded in trace
NoLoss == [mb |-> -1, stage |-> -1, target |-> -1]
Call(op, mb, last_backward, loss) ==
    [op |-> op, mb |-> mb, last_backward |-> last_backward, loss |-> loss]
forward_one_chunk(mb)  == Call("forward", mb, FALSE, NoLoss)
backward_one_chunk(mb, loss) == Call("backward", mb, FALSE, loss)
configure_data_parallel_mode(last_backward) ==
    Call("configure", -1, last_backward, NoLoss)
\* the value forward_one_chunk returns for microbatch mb on stage s
Output(mb, s) == [mb |-> mb, stage |-> s]

(* ----------------------------- transport ------------------------------ *)
Tag(op) == [what |-> op.what, from |-> op.from, to |-> op.to]
Handle(kind, src, dst, idx) ==
    [kind |-> kind, src |-> src, dst |-> dst, idx |-> idx]

\* posts the ops of one batch in list order on behalf of rank r;
\* st = [sends, recvs, work]
RECURSIVE PostOps(_, _, _)
PostOps(ops, r, st) ==
    IF ops = <<>> THEN st
    ELSE LET op == Head(ops)
             ch == IF op.kind = "send" THEN <<r, op.peer>>
                                       ELSE <<op.peer, r>>
             st1 == IF op.kind = "send"
                    THEN [sends |-> [st.sends EXCEPT
                                        ![ch] = Append(@, Tag(op))],
                          recvs |-> st.recvs,
                          work  |-> st.work \cup
                              {Handle("send", ch[1], ch[2],
                                      Len(st.sends[ch]) + 1)}]
                    ELSE [sends |-> st.sends,
                          recvs |-> [st.recvs EXCEPT
                                        ![ch] = Append(@, Tag(op))],
                          work  |-> st.work \cup
                              {Handle("recv", ch[1], ch[2],
                                      Len(st.recvs[ch]) + 1)}]
         IN  PostOps(Tail(ops), r, st1)

\* dist.batch_isend_irecv(p2p_ops).pop(): one work for the whole batch
batch_p2p(ops, r, net) ==
    PostOps(ops, r, [sends |-> net.sends, recvs |-> net.recvs,
                         work |-> {}])

\* the peers of p2p_ops in ascending order
RECURSIVE SortedSeq(_)
SortedSeq(S) ==
    IF S = {} THEN <<>>
    ELSE LET m == CHOOSE x \in S : \A y \in S : x <= y
         IN  <<m>> \o SortedSeq(S \ {m})

OpsOfPeer(ops, peer) == SelectSeq(ops, LAMBDA op : op.peer = peer)

\* the sizes of the op lists of a sequence of _batch_p2p calls
BatchSizes(calls) == {Len(calls[k]) : k \in DOMAIN calls}

\* st = [sends, recvs, works, keys, calls]; one batch_p2p call per peer
\* of `peers`; keys and works are the items of work_by_peer, calls the
\* arguments of the _batch_p2p calls
RECURSIVE BatchPerPeer(_, _, _, _)
BatchPerPeer(peers, ops, r, st) ==
    IF peers = <<>> THEN st
    ELSE LET b == batch_p2p(OpsOfPeer(ops, Head(peers)), r, st)
         IN  BatchPerPeer(Tail(peers), ops, r,
                          [sends |-> b.sends, recvs |-> b.recvs,
                           works |-> Append(st.works, b.work),
                           keys  |-> Append(st.keys, Head(peers)),
                           calls |-> Append(st.calls,
                                        OpsOfPeer(ops, Head(peers)))])

\* the keys of ops_by_peer in insertion order
RECURSIVE InsertionOrder(_)
InsertionOrder(ops) ==
    IF ops = <<>> THEN <<>>
    ELSE <<Head(ops).peer>> \o
         InsertionOrder(SelectSeq(Tail(ops),
                                  LAMBDA op : op.peer # Head(ops).peer))

\* variant: iterates ops_by_peer.items() without sorting
sorted_batch_p2p_unsorted(ops, r, net) ==
    IF Len(ops) = 0
    THEN [sends |-> net.sends, recvs |-> net.recvs, works |-> <<>>,
          keys |-> <<>>, calls |-> <<>>]
    ELSE BatchPerPeer(
            InsertionOrder(ops),
            ops, r,
            [sends |-> net.sends, recvs |-> net.recvs, works |-> <<>>,
             keys |-> <<>>, calls |-> <<>>])

\* returns the new channels and work_by_peer.values() (in peer order)
sorted_batch_p2p(ops, r, net) ==
    IF Len(ops) = 0
    THEN [sends |-> net.sends, recvs |-> net.recvs, works |-> <<>>,
          keys |-> <<>>, calls |-> <<>>]
    ELSE BatchPerPeer(
            SortedSeq({ops[k].peer : k \in DOMAIN ops}),
            ops, r,
            [sends |-> net.sends, recvs |-> net.recvs, works |-> <<>>,
             keys |-> <<>>, calls |-> <<>>])

Net == [sends |-> sends, recvs |-> recvs]

\* an op completes once the peer has posted the matching opposite op
Complete(h) ==
    IF h.kind = "send" THEN Len(recvs[<<h.src, h.dst>>]) >= h.idx
                       ELSE Len(sends[<<h.src, h.dst>>]) >= h.idx
\* work.wait() returns
WorkDone(w) == \A h \in w : Complete(h)
AllDone(works) == \A k \in DOMAIN works : WorkDone(works[k])

(* -------------------------- loss bookkeeping -------------------------- *)
compute_loss(output, target) ==
    [mb |-> output.mb, stage |-> output.stage, target |-> target]

\* variant: the list holds only the most recent loss
maybe_compute_loss_replace(il, s, output, mb_index) ==
    IF is_last(s) /\ has_backward
    THEN << compute_loss(output, mb_index) >>
    ELSE il

\* target_mbs[mb_index] is the target of microbatch mb_index
maybe_compute_loss(il, s, output, mb_index) ==
    IF is_last(s) /\ has_backward
    THEN Append(il, compute_loss(output, mb_index))
    ELSE il


\* variant: the most recent loss instead of the loss of mb_index
maybe_get_loss_latest(il, s, mb_index) ==
    LET valid_index == 0 <= mb_index /\ mb_index < Len(il)
    IN  IF is_last(s) /\ has_backward /\ valid_index
        THEN [raised |-> FALSE, loss |-> il[Len(il)]]
        ELSE IF Len(il) # 0 /\ ~valid_index
        THEN [raised |-> TRUE, loss |-> NoLoss]
        ELSE [raised |-> FALSE, loss |-> NoLoss]

\* variant: raises only when the stage is the last one
maybe_get_loss_last_only(il, s, mb_index) ==
    LET valid_index == 0 <= mb_index /\ mb_index < Len(il)
    IN  IF is_last(s) /\ has_backward /\ valid_index
        THEN [raised |-> FALSE, loss |-> il[mb_index + 1]]
        ELSE IF Len(il) # 0 /\ ~valid_index /\ is_last(s)
        THEN [raised |-> TRUE, loss |-> NoLoss]
        ELSE [raised |-> FALSE, loss |-> NoLoss]

\* [raised, loss]
maybe_get_loss(il, s, mb_index) ==
    LET valid_index == 0 <= mb_index /\ mb_index < Len(il)
    IN  IF is_last(s) /\ has_backward /\ valid_index
        THEN [raised |-> FALSE, loss |-> il[mb_index + 1]]
        ELSE IF Len(il) # 0 /\ ~valid_index
        THEN [raised |-> TRUE, loss |-> NoLoss]
        ELSE [raised |-> FALSE, loss |-> NoLoss]

\* variant: internal_losses is not cleared after the copy
update_losses_keep(stages, il, ext) ==
    LET contains_last_stage == \E k \in DOMAIN stages : is_last(stages[k])
    IN  IF contains_last_stage /\ losses_given
        THEN IF Len(il) # n_microbatches
             THEN [raised |-> TRUE, internal_losses |-> il, losses |-> ext]
             ELSE [raised |-> FALSE, internal_losses |-> il,
                   losses |-> il]
        ELSE [raised |-> FALSE, internal_losses |-> il, losses |-> ext]

\* variant: extends the container without clearing it first
update_losses_no_clear(stages, il, ext) ==
    LET contains_last_stage == \E k \in DOMAIN stages : is_last(stages[k])
    IN  IF contains_last_stage /\ losses_given
        THEN IF Len(il) # n_microbatches
             THEN [raised |-> TRUE, internal_losses |-> il, losses |-> ext]
             ELSE [raised |-> FALSE, internal_losses |-> <<>>,
                   losses |-> ext \o il]
        ELSE [raised |-> FALSE, internal_losses |-> <<>>, losses |-> ext]

\* [raised, internal_losses, losses]
update_losses(stages, il, ext) ==
    LET contains_last_stage == \E k \in DOMAIN stages : is_last(stages[k])
    IN  IF contains_last_stage /\ losses_given
        THEN IF Len(il) # n_microbatches
             THEN [raised |-> TRUE, internal_losses |-> il, losses |-> ext]
             ELSE [raised |-> FALSE, internal_losses |-> <<>>,
                   losses |-> il]
        ELSE [raised |-> FALSE, internal_losses |-> <<>>, losses |-> ext]


(* --------------------------- _check_inputs ---------------------------- *)
\* a *_mbs argument: None, or a container that is a list or not
NoMbs == [given |-> FALSE, is_list |-> FALSE, len |-> 0]
Mbs(is_list, len) == [given |-> TRUE, is_list |-> is_list, len |-> len]

\* check_type_and_len(mbs, name): the exception it raises, or "ok"
check_type_and_len(mbs) ==
    IF ~mbs.is_list THEN "TypeError"
    ELSE IF mbs.len # n_microbatches THEN "ValueError"
    ELSE "ok"

\* _check_inputs: the exception it raises or "ok", and the lengths of the
\* arg_mbs and kwarg_mbs it returns
check_inputs ==
    LET a == IF arg_mbs.given THEN check_type_and_len(arg_mbs) ELSE "ok"
        k == IF kwarg_mbs.given THEN check_type_and_len(kwarg_mbs) ELSE "ok"
        t == IF target_mbs.given THEN check_type_and_len(target_mbs) ELSE "ok"
        l == IF losses_type = "other" THEN "TypeError" ELSE "ok"
    IN  [result |-> IF a # "ok" THEN a
                    ELSE IF k # "ok" THEN k
                    ELSE IF t # "ok" THEN t
                    ELSE l,
         arg_len |-> IF arg_mbs.given THEN arg_mbs.len ELSE n_microbatches,
         kwarg_len |-> IF kwarg_mbs.given THEN kwarg_mbs.len
                                         ELSE n_microbatches]

\* the caller passes lists of n_microbatches args and targets, no kwargs
MatchingInputs ==
    /\ arg_mbs = Mbs(TRUE, n_microbatches)
    /\ kwarg_mbs = NoMbs
    /\ target_mbs = IF has_backward THEN Mbs(TRUE, n_microbatches) ELSE NoMbs
    /\ losses_type = IF losses_given THEN "list" ELSE "None"

(* ---------------------------- constructors --------------------------- *)
\* no schedule object was built before
NotBuilt == <<>>
Unset == "unset"
FlagOf(b) == IF b THEN "True" ELSE "False"

\* for stage in self._stages: stage.has_backward = self._has_backward
SetFlags == [k \in 1 .. n_local_stages |-> FlagOf(has_backward)]

\* the constructor has run up to the computation of pipeline_order
Constructed ==
    /\ group_rank = 0
    /\ stage_has_backward = SetFlags
    /\ other_pipeline_order = NotBuilt

(* ------------------------------- Init --------------------------------- *)
Schedules == {"GPipe", "1F1B", "LoopedBFS", "Interleaved1F1B"}

\* _sorted_batch_p2p is not under test
NoBatch ==
    /\ p2p_ops = <<>>
    /\ batch_calls = <<>>
    /\ work_by_peer = <<>>

\* returned[r] is empty until the call returns, then holds the one value
NoValue == <<>>
Value(v) == <<v>>
NoReturn ==
    /\ returned = [r \in Ranks |-> NoValue]
    /\ step_calls = [r \in Ranks |-> 0]

InitRun ==
    /\ plan_rank = 0
    /\ plan_step = 0
    /\ rank_ops = <<>>
    /\ fwd_stage_mb_index = [s \in Stages |-> 0]
    /\ bwd_stage_mb_index = [s \in Stages |-> 0]
    /\ pipeline_order = <<>>
    /\ pc = [r \in Ranks |-> "start"]
    /\ step_i = [r \in Ranks |-> 0]
    /\ stage_k = [r \in Ranks |-> 1]
    /\ bwd_mb_index = [r \in Ranks |-> 0]
    /\ waiting = [r \in Ranks |-> <<>>]
    /\ fwd_sends_to_wait = [r \in Ranks |-> <<>>]
    /\ bwd_sends_to_wait = [r \in Ranks |-> <<>>]
    /\ internal_losses = [r \in Ranks |-> <<>>]
    /\ losses = [r \in Ranks |-> <<>>]
    /\ trace = [s \in Stages |-> <<>>]
    /\ sends = [ch \in Ranks \X Ranks |-> <<>>]
    /\ recvs = [ch \in Ranks \X Ranks |-> <<>>]
    /\ batch_sizes = {}

\* the four schedules after construction; the constructor of
\* ScheduleInterleaved1F1B still has pipeline_order to compute
Init ==
    /\ sched \in Schedules
    /\ pp_group_size \in 1 .. MaxRanks
    /\ n_local_stages \in 1 .. MaxLocalStages
    /\ n_microbatches \in 1 .. (MaxMicrobatches + MaxRanks * MaxRounds)
    /\ has_backward \in BOOLEAN
    /\ losses_given \in BOOLEAN
    /\ \/ /\ sched \in {"GPipe", "1F1B"}
          /\ n_local_stages = 1
          /\ n_microbatches <= MaxMicrobatches
       \/ /\ sched = "LoopedBFS"
          /\ pp_group_size >= 2
          /\ n_local_stages >= 2
          /\ n_microbatches <= MaxMicrobatches
       \/ /\ sched = "Interleaved1F1B"
          /\ pp_group_size >= 2
          /\ n_local_stages >= 2
          /\ \E k \in 1 .. MaxRounds : n_microbatches = pp_group_size * k
          /\ n_microbatches * n_local_stages <= MaxStageRuns
    /\ plan_pc = IF sched = "Interleaved1F1B" THEN "begin" ELSE "done"
    /\ MatchingInputs
    /\ Constructed
    /\ NoBatch
    /\ NoReturn
    /\ InitRun

\* the constructor of ScheduleInterleaved1F1B alone, on larger groups
InitPlan ==
    /\ sched = "Interleaved1F1B"
    /\ pp_group_size \in 2 .. MaxPlanRanks
    /\ n_local_stages \in 2 .. MaxLocalStages
    /\ n_microbatches \in 1 .. (MaxPlanRanks * MaxRounds)
    /\ \E k \in 1 .. MaxRounds : n_microbatches = pp_group_size * k
    /\ has_backward = TRUE
    /\ losses_given = TRUE
    /\ plan_pc = "begin"
    /\ MatchingInputs
    /\ Constructed
    /\ NoBatch
    /\ NoReturn
    /\ InitRun

(* ------------------------- _step_microbatches ------------------------- *)

\* variant: compares with the number of microbatches
is_last_microbatch_off(i) == i = n_microbatches

\* the argument of _configure_data_parallel_mode in GPipe and Looped BFS
is_last_microbatch(i) == i = n_microbatches - 1

Upd(f, r, v) == [f EXCEPT ![r] = v]
Log(s, call) == [trace EXCEPT ![s] = Append(@, call)]

Running(r, label) == plan_pc = "done" /\ pc[r] = label

\* _check_inputs raised: _step_microbatches ends with the exception
RaiseAtEntry(r, exception) ==
    /\ pc' = Upd(pc, r, exception)
    /\ UNCHANGED <<step_i, stage_k, bwd_mb_index, waiting, fwd_sends_to_wait,
                   bwd_sends_to_wait, internal_losses, losses>>
    /\ UNCHANGED <<cfgVars, planVars, netVars>>

\* entry of _step_microbatches: _check_inputs, then the loop starts
EnterGPipe(r) ==
    /\ sched = "GPipe"
    /\ Running(r, "start")
    /\ IF check_inputs.result # "ok"
       THEN RaiseAtEntry(r, check_inputs.result)
       ELSE /\ pc' = Upd(pc, r, "fwd_recv")
            /\ step_i' = Upd(step_i, r, 0)
            /\ UNCHANGED <<stage_k, bwd_mb_index, waiting,
                           fwd_sends_to_wait, bwd_sends_to_wait,
                           internal_losses, losses>>
            /\ UNCHANGED <<cfgVars, planVars, netVars>>

(* ---- ScheduleGPipe ---- *)

\* variant: the forward phase posts the recvs of the backward phase
GPipeFwdRecv_bwd_ops(r) ==
    /\ sched = "GPipe"
    /\ Running(r, "fwd_recv")
    /\ LET b == sorted_batch_p2p(get_bwd_recv_ops(r), r, Net)
       IN  /\ sends' = b.sends
           /\ recvs' = b.recvs
           /\ batch_sizes' = batch_sizes \cup BatchSizes(b.calls)
           /\ waiting' = Upd(waiting, r, b.works)
    /\ pc' = Upd(pc, r, "forward")
    /\ UNCHANGED <<step_i, stage_k, bwd_mb_index, fwd_sends_to_wait,
                   bwd_sends_to_wait, internal_losses, losses, trace>>
    /\ UNCHANGED <<cfgVars, planVars>>

GPipeFwdRecv(r) ==
    /\ sched = "GPipe"
    /\ Running(r, "fwd_recv")
    /\ LET b == sorted_batch_p2p(get_fwd_recv_ops(r), r, Net)
       IN  /\ sends' = b.sends
           /\ recvs' = b.recvs
           /\ batch_sizes' = batch_sizes \cup BatchSizes(b.calls)
           /\ waiting' = Upd(waiting, r, b.works)
    /\ pc' = Upd(pc, r, "forward")
    /\ UNCHANGED <<step_i, stage_k, bwd_mb_index, fwd_sends_to_wait,
                   bwd_sends_to_wait, internal_losses, losses, trace>>
    /\ UNCHANGED <<cfgVars, planVars>>

GPipeForward(r) ==
    /\ sched = "GPipe"
    /\ Running(r, "forward")
    /\ AllDone(waiting[r])
    /\ LET i == step_i[r]
           b == sorted_batch_p2p(get_fwd_send_ops(r), r, Net)
       IN  /\ trace' = Log(r, forward_one_chunk(i))
           /\ sends' = b.sends
           /\ recvs' = b.recvs
           /\ batch_sizes' = batch_sizes \cup BatchSizes(b.calls)
           /\ fwd_sends_to_wait' =
                 Upd(fwd_sends_to_wait, r, fwd_sends_to_wait[r] \o b.works)
           /\ internal_losses' =
                 Upd(internal_losses, r,
                     maybe_compute_loss(internal_losses[r], r,
                                        Output(i, r), i))
           /\ step_i' = Upd(step_i, r, i + 1)
           /\ pc' = Upd(pc, r, IF i + 1 < n_microbatches
                               THEN "fwd_recv" ELSE "fwd_sends_wait")
    /\ waiting' = Upd(waiting, r, <<>>)
    /\ UNCHANGED <<stage_k, bwd_mb_index, bwd_sends_to_wait, losses>>
    /\ UNCHANGED <<cfgVars, planVars>>

GPipeFwdSendsWait(r) ==
    /\ sched = "GPipe"
    /\ Running(r, "fwd_sends_wait")
    /\ AllDone(fwd_sends_to_wait[r])
    /\ pc' = Upd(pc, r, IF ~has_backward THEN "done" ELSE "bwd_recv")
    /\ step_i' = Upd(step_i, r, 0)
    /\ UNCHANGED <<stage_k, bwd_mb_index, waiting, fwd_sends_to_wait,
                   bwd_sends_to_wait, internal_losses, losses>>
    /\ UNCHANGED <<cfgVars, planVars, netVars>>

GPipeBwdRecv(r) ==
    /\ sched = "GPipe"
    /\ Running(r, "bwd_recv")
    /\ LET i == step_i[r]
           b == sorted_batch_p2p(get_bwd_recv_ops(r), r, Net)
       IN  /\ trace' = Log(r, configure_data_parallel_mode(
                                    is_last_microbatch(i)))
           /\ sends' = b.sends
           /\ recvs' = b.recvs
           /\ batch_sizes' = batch_sizes \cup BatchSizes(b.calls)
           /\ waiting' = Upd(waiting, r, b.works)
    /\ pc' = Upd(pc, r, "backward")
    /\ UNCHANGED <<step_i, stage_k, bwd_mb_index, fwd_sends_to_wait,
                   bwd_sends_to_wait, internal_losses, losses>>
    /\ UNCHANGED <<cfgVars, planVars>>

GPipeBackward(r) ==
    /\ sched = "GPipe"
    /\ Running(r, "backward")
    /\ AllDone(waiting[r])
    /\ LET i == step_i[r]
           g == maybe_get_loss(internal_losses[r], r, i)
           b == sorted_batch_p2p(get_bwd_send_ops(r), r, Net)
       IN  IF g.raised
           THEN /\ pc' = Upd(pc, r, "raised")
                /\ UNCHANGED <<step_i, bwd_sends_to_wait, netVars>>
           ELSE /\ trace' = Log(r, backward_one_chunk(i, g.loss))
                /\ sends' = b.sends
                /\ recvs' = b.recvs
                /\ batch_sizes' = batch_sizes \cup BatchSizes(b.calls)
                /\ bwd_sends_to_wait' =
                      Upd(bwd_sends_to_wait, r,
                          bwd_sends_to_wait[r] \o b.works)
                /\ step_i' = Upd(step_i, r, i + 1)
                /\ pc' = Upd(pc, r, IF i + 1 < n_microbatches
                                    THEN "bwd_recv" ELSE "update_losses")
    /\ waiting' = Upd(waiting, r, <<>>)
    /\ UNCHANGED <<stage_k, bwd_mb_index, fwd_sends_to_wait,
                   internal_losses, losses>>
    /\ UNCHANGED <<cfgVars, planVars>>

GPipeUpdateLosses(r) ==
    /\ sched = "GPipe"
    /\ Running(r, "update_losses")
    /\ LET u == update_losses(<<r>>, internal_losses[r], losses[r])
       IN  /\ internal_losses' = Upd(internal_losses, r, u.internal_losses)
           /\ losses' = Upd(losses, r, u.losses)
           /\ pc' = Upd(pc, r, IF u.raised THEN "raised"
                               ELSE "bwd_sends_wait")
    /\ UNCHANGED <<step_i, stage_k, bwd_mb_index, waiting,
                   fwd_sends_to_wait, bwd_sends_to_wait>>
    /\ UNCHANGED <<cfgVars, planVars, netVars>>


\* variant: returns without waiting for the backward sends
GPipeBwdSendsWait_no_wait(r) ==
    /\ sched = "GPipe"
    /\ Running(r, "bwd_sends_wait")
    /\ pc' = Upd(pc, r, "done")
    /\ UNCHANGED <<step_i, stage_k, bwd_mb_index, waiting,
                   fwd_sends_to_wait, bwd_sends_to_wait, internal_losses,
                   losses>>
    /\ UNCHANGED <<cfgVars, planVars, netVars>>

GPipeBwdSendsWait(r) ==
    /\ sched = "GPipe"
    /\ Running(r, "bwd_sends_wait")
    /\ AllDone(bwd_sends_to_wait[r])
    /\ pc' = Upd(pc, r, "done")
    /\ UNCHANGED <<step_i, stage_k, bwd_mb_index, waiting,
                   fwd_sends_to_wait, bwd_sends_to_wait, internal_losses,
                   losses>>
    /\ UNCHANGED <<cfgVars, planVars, netVars>>

GPipeStep(r) ==
    \/ EnterGPipe(r)
    \/ GPipeFwdRecv(r)
    \/ GPipeForward(r)
    \/ GPipeFwdSendsWait(r)
    \/ GPipeBwdRecv(r)
    \/ GPipeBackward(r)
    \/ GPipeUpdateLosses(r)
    \/ GPipeBwdSendsWait(r)


(* ---- Schedule1F1B ---- *)

\* variant: the warmup is not clamped to the number of microbatches
warmup_steps_1f1b_unclamped(s) == 2 * (num_stages - s - 1)


\* variant: one warmup step per later stage instead of two
warmup_steps_1f1b_single(s) == Min(n_microbatches, num_stages - s - 1)

\* the stage of rank r is stage r; num_stages = pp_group_size
warmup_steps_1f1b(s) == Min(n_microbatches, 2 * (num_stages - s - 1))
main_1f1b_steps(s) == n_microbatches - warmup_steps_1f1b(s)

\* variant: the 1F1B steps are counted once
cooldown_steps_1f1b_single(s) ==
    (2 * n_microbatches) - (warmup_steps_1f1b(s) + main_1f1b_steps(s))

cooldown_steps_1f1b(s) ==
    (2 * n_microbatches) - (warmup_steps_1f1b(s) + (2 * main_1f1b_steps(s)))
total_steps(s) ==
    warmup_steps_1f1b(s) + main_1f1b_steps(s) + cooldown_steps_1f1b(s)

\* the step predicates return True, False or fail their assertion
T3 == "True"
F3 == "False"
E3 == "AssertionError"
B3(b) == IF b THEN T3 ELSE F3
And3(a, b) == IF a = E3 THEN E3 ELSE IF a = F3 THEN F3 ELSE b
Or3(a, b)  == IF a = E3 THEN E3 ELSE IF a = T3 THEN T3 ELSE b
Not3(a)    == IF a = E3 THEN E3 ELSE IF a = T3 THEN F3 ELSE T3


\* variant: the last microbatch gets no forward step
step_has_forward_short(i) ==
    IF i >= 0 THEN (IF i < n_microbatches - 1 THEN "True" ELSE "False")
    ELSE "AssertionError"

step_has_forward(i) == IF i >= 0 THEN B3(i < n_microbatches) ELSE E3


\* variant: the first backward comes one step late
step_has_backward_late(i, s) ==
    IF i < total_steps(s)
    THEN B3(i > warmup_steps_1f1b(s) /\ has_backward)
    ELSE E3

step_has_backward(i, s) ==
    IF i < total_steps(s)
    THEN B3(i >= warmup_steps_1f1b(s) /\ has_backward)
    ELSE E3

is_1f1b_step(i, s) == And3(step_has_forward(i), step_has_backward(i, s))

is_warmup_step(i, s) ==
    And3(step_has_forward(i), Not3(step_has_backward(i, s)))

is_cooldown_step(i, s) ==
    And3(Not3(step_has_forward(i)), step_has_backward(i, s))



\* variant: the last warmup step before the cooldown is not recognised
should_coalesce_fwd_send_bwd_recv_no_warmup_end(step, s) ==
    Or3(is_1f1b_step(step, s),
        And3(B3(step >= 1),
             And3(is_warmup_step(step - 1, s),
                  is_cooldown_step(step, s))))

\* variant: the step after the warmup-to-cooldown seam is not recognised
should_coalesce_fwd_send_bwd_recv_no_seam(step, s) ==
    Or3(is_1f1b_step(step, s),
        And3(is_warmup_step(step, s), is_cooldown_step(step + 1, s)))

should_coalesce_fwd_send_bwd_recv(step, s) ==
    Or3(is_1f1b_step(step, s),
        Or3(And3(is_warmup_step(step, s), is_cooldown_step(step + 1, s)),
            And3(B3(step >= 1),
                 And3(is_warmup_step(step - 1, s),
                      is_cooldown_step(step, s)))))


\* variant: does not ask whether step bwd_send_step had a backward
should_coalesce_bwd_send_fwd_recv_any_step(bwd_send_step, s) ==
    is_1f1b_step(bwd_send_step + 1, s)

should_coalesce_bwd_send_fwd_recv(bwd_send_step, s) ==
    And3(B3(bwd_send_step >= warmup_steps_1f1b(s)),
         is_1f1b_step(bwd_send_step + 1, s))

\* for i in range(total_steps): the next thing the loop does from step j on
RECURSIVE F1BLoop(_, _)
RECURSIVE F1BAfterForward(_, _)
F1BLoop(j, s) ==
    IF j >= total_steps(s) THEN [pc |-> "finish", i |-> j]
    ELSE IF step_has_forward(j) = E3 THEN [pc |-> "raised", i |-> j]
    ELSE IF step_has_forward(j) = T3 THEN [pc |-> "fwd_recv", i |-> j]
    ELSE F1BAfterForward(j, s)

\* if step_has_backward(i): ... else the next iteration
F1BAfterForward(j, s) ==
    IF step_has_backward(j, s) = E3 THEN [pc |-> "raised", i |-> j]
    ELSE IF step_has_backward(j, s) = T3 THEN [pc |-> "bwd_recv", i |-> j]
    ELSE F1BLoop(j + 1, s)

Enter1F1B(r) ==
    /\ sched = "1F1B"
    /\ Running(r, "start")
    /\ IF check_inputs.result # "ok"
       THEN RaiseAtEntry(r, check_inputs.result)
       ELSE /\ trace' = Log(r, configure_data_parallel_mode(FALSE))
            /\ LET next == F1BLoop(0, r)
               IN  /\ pc' = Upd(pc, r, next.pc)
                   /\ step_i' = Upd(step_i, r, next.i)
            /\ bwd_mb_index' = Upd(bwd_mb_index, r, 0)
            /\ UNCHANGED <<stage_k, waiting, fwd_sends_to_wait,
                           bwd_sends_to_wait, internal_losses, losses,
                           sends, recvs, batch_sizes>>
            /\ UNCHANGED <<cfgVars, planVars>>

F1BFwdRecv(r) ==
    /\ sched = "1F1B"
    /\ Running(r, "fwd_recv")
    /\ LET i == step_i[r]
           c == should_coalesce_bwd_send_fwd_recv(i - 1, r)
           ops == get_fwd_recv_ops(r)
                    \o (IF c = T3 THEN get_bwd_send_ops(r) ELSE <<>>)
           b == sorted_batch_p2p(ops, r, Net)
       IN  IF c = E3
           THEN /\ pc' = Upd(pc, r, "raised")
                /\ UNCHANGED <<waiting, sends, recvs, batch_sizes>>
           ELSE /\ sends' = b.sends
                /\ recvs' = b.recvs
                /\ batch_sizes' = batch_sizes \cup BatchSizes(b.calls)
                /\ waiting' = Upd(waiting, r, b.works)
                /\ pc' = Upd(pc, r, "forward")
    /\ UNCHANGED <<step_i, stage_k, bwd_mb_index, fwd_sends_to_wait,
                   bwd_sends_to_wait, internal_losses, losses, trace>>
    /\ UNCHANGED <<cfgVars, planVars>>

F1BForward(r) ==
    /\ sched = "1F1B"
    /\ Running(r, "forward")
    /\ AllDone(waiting[r])
    /\ LET i == step_i[r]
           c == should_coalesce_fwd_send_bwd_recv(i, r)
           b == sorted_batch_p2p(get_fwd_send_ops(r), r, Net)
           next == F1BAfterForward(i, r)
       IN  /\ trace' = Log(r, forward_one_chunk(i))
           /\ IF c = E3
              THEN /\ pc' = Upd(pc, r, "raised")
                   /\ UNCHANGED <<step_i, fwd_sends_to_wait,
                                  internal_losses, sends, recvs, batch_sizes>>
              ELSE /\ IF c = F3
                      THEN /\ sends' = b.sends
                           /\ recvs' = b.recvs
                           /\ batch_sizes' = batch_sizes \cup BatchSizes(b.calls)
                           /\ fwd_sends_to_wait' =
                                 Upd(fwd_sends_to_wait, r,
                                     fwd_sends_to_wait[r] \o b.works)
                      ELSE UNCHANGED <<sends, recvs, batch_sizes,
                                       fwd_sends_to_wait>>
                   /\ internal_losses' =
                         Upd(internal_losses, r,
                             maybe_compute_loss(internal_losses[r], r,
                                                Output(i, r), i))
                   /\ pc' = Upd(pc, r, next.pc)
                   /\ step_i' = Upd(step_i, r, next.i)
    /\ waiting' = Upd(waiting, r, <<>>)
    /\ UNCHANGED <<stage_k, bwd_mb_index, bwd_sends_to_wait, losses>>
    /\ UNCHANGED <<cfgVars, planVars>>

F1BBwdRecv(r) ==
    /\ sched = "1F1B"
    /\ Running(r, "bwd_recv")
    /\ LET i == step_i[r]
           c == should_coalesce_fwd_send_bwd_recv(i, r)
           ops == get_bwd_recv_ops(r)
                    \o (IF c = T3 THEN get_fwd_send_ops(r) ELSE <<>>)
           b == sorted_batch_p2p(ops, r, Net)
       IN  /\ trace' = Log(r, configure_data_parallel_mode(
                                    i = total_steps(r) - 1))
           /\ IF c = E3
              THEN /\ pc' = Upd(pc, r, "raised")
                   /\ UNCHANGED <<waiting, sends, recvs, batch_sizes>>
              ELSE /\ sends' = b.sends
                   /\ recvs' = b.recvs
                   /\ batch_sizes' = batch_sizes \cup BatchSizes(b.calls)
                   /\ waiting' = Upd(waiting, r, b.works)
                   /\ pc' = Upd(pc, r, "backward")
    /\ UNCHANGED <<step_i, stage_k, bwd_mb_index, fwd_sends_to_wait,
                   bwd_sends_to_wait, internal_losses, losses>>
    /\ UNCHANGED <<cfgVars, planVars>>

F1BBackward(r) ==
    /\ sched = "1F1B"
    /\ Running(r, "backward")
    /\ AllDone(waiting[r])
    /\ LET i == step_i[r]
           g == maybe_get_loss(internal_losses[r], r, bwd_mb_index[r])
           c == should_coalesce_bwd_send_fwd_recv(i, r)
           b == sorted_batch_p2p(get_bwd_send_ops(r), r, Net)
           next == F1BLoop(i + 1, r)
       IN  IF g.raised
           THEN /\ pc' = Upd(pc, r, "raised")
                /\ UNCHANGED <<step_i, bwd_mb_index, bwd_sends_to_wait,
                               netVars>>
           ELSE /\ trace' = Log(r, backward_one_chunk(bwd_mb_index[r],
                                                      g.loss))
                /\ IF c = E3
                   THEN /\ pc' = Upd(pc, r, "raised")
                        /\ UNCHANGED <<step_i, bwd_mb_index,
                                       bwd_sends_to_wait, sends, recvs,
                                       batch_sizes>>
                   ELSE /\ IF c = F3
                           THEN /\ sends' = b.sends
                                /\ recvs' = b.recvs
                                /\ batch_sizes' = batch_sizes \cup BatchSizes(b.calls)
                                /\ bwd_sends_to_wait' =
                                      Upd(bwd_sends_to_wait, r,
                                          bwd_sends_to_wait[r] \o b.works)
                           ELSE UNCHANGED <<sends, recvs, batch_sizes,
                                            bwd_sends_to_wait>>
                        /\ bwd_mb_index' =
                              Upd(bwd_mb_index, r, bwd_mb_index[r] + 1)
                        /\ pc' = Upd(pc, r, next.pc)
                        /\ step_i' = Upd(step_i, r, next.i)
    /\ waiting' = Upd(waiting, r, <<>>)
    /\ UNCHANGED <<stage_k, fwd_sends_to_wait, internal_losses, losses>>
    /\ UNCHANGED <<cfgVars, planVars>>

\* the deferred waits, then _update_losses
F1BFinish(r) ==
    /\ sched = "1F1B"
    /\ Running(r, "finish")
    /\ AllDone(fwd_sends_to_wait[r])
    /\ AllDone(bwd_sends_to_wait[r])
    /\ LET u == update_losses(<<r>>, internal_losses[r], losses[r])
       IN  /\ internal_losses' = Upd(internal_losses, r, u.internal_losses)
           /\ losses' = Upd(losses, r, u.losses)
           /\ pc' = Upd(pc, r, IF u.raised THEN "raised" ELSE "done")
    /\ UNCHANGED <<step_i, stage_k, bwd_mb_index, waiting,
                   fwd_sends_to_wait, bwd_sends_to_wait>>
    /\ UNCHANGED <<cfgVars, planVars, netVars>>

F1BStep(r) ==
    \/ Enter1F1B(r)
    \/ F1BFwdRecv(r)
    \/ F1BForward(r)
    \/ F1BBwdRecv(r)
    \/ F1BBackward(r)
    \/ F1BFinish(r)


(* ---- ScheduleLoopedBFS ---- *)
\* the pre-processing of the inputs; arg_mbs has n_microbatches entries
\* the pre-processing of the inputs in place of _check_inputs: arg_mbs
\* sets self._n_microbatches, kwarg_mbs is asserted to have that length
EnterBFS(r) ==
    /\ sched = "LoopedBFS"
    /\ Running(r, "start")
    /\ n_microbatches' = IF arg_mbs.given THEN arg_mbs.len
                                          ELSE n_microbatches
    /\ IF kwarg_mbs.given /\ kwarg_mbs.len # n_microbatches'
       THEN /\ pc' = Upd(pc, r, "raised")
            /\ UNCHANGED <<step_i, stage_k>>
       ELSE /\ pc' = Upd(pc, r, "fwd_recv")
            /\ step_i' = Upd(step_i, r, 0)
            /\ stage_k' = Upd(stage_k, r, 1)
    /\ UNCHANGED <<bwd_mb_index, waiting, fwd_sends_to_wait,
                   bwd_sends_to_wait, internal_losses, losses>>
    /\ UNCHANGED <<sched, pp_group_size, n_local_stages, has_backward,
                   losses_given, inputVars, batchVars, callVars, ctorVars>>
    /\ UNCHANGED <<planVars, netVars>>

\* if ops: _batch_p2p(ops).wait()
BFSFwdRecv(r) ==
    /\ sched = "LoopedBFS"
    /\ Running(r, "fwd_recv")
    /\ LET stage == StagesOf(r)[stage_k[r]]
           ops == get_fwd_recv_ops(stage)
           b == batch_p2p(ops, r, Net)
       IN  IF ops # <<>>
           THEN /\ sends' = b.sends
                /\ recvs' = b.recvs
                /\ batch_sizes' = batch_sizes \cup {Len(ops)}
                /\ waiting' = Upd(waiting, r, <<b.work>>)
           ELSE UNCHANGED <<sends, recvs, batch_sizes, waiting>>
    /\ pc' = Upd(pc, r, "forward")
    /\ UNCHANGED <<step_i, stage_k, bwd_mb_index, fwd_sends_to_wait,
                   bwd_sends_to_wait, internal_losses, losses, trace>>
    /\ UNCHANGED <<cfgVars, planVars>>

\* variant: the backward phase starts at the first stage of the list
BFSForward_list_order(r) ==
    /\ sched = "LoopedBFS"
    /\ Running(r, "forward")
    /\ AllDone(waiting[r])
    /\ LET i == step_i[r]
           stage == StagesOf(r)[stage_k[r]]
           ops == get_fwd_send_ops(stage)
           b == batch_p2p(ops, r, Net)
       IN  /\ trace' = Log(stage, forward_one_chunk(i))
           /\ internal_losses' =
                 Upd(internal_losses, r,
                     maybe_compute_loss(internal_losses[r], stage,
                                        Output(i, stage), i))
           /\ IF ops # <<>>
              THEN sends' = b.sends /\ recvs' = b.recvs
                     /\ batch_sizes' = batch_sizes \cup {Len(ops)}
              ELSE UNCHANGED <<sends, recvs, batch_sizes>>
           /\ IF i + 1 < n_microbatches
              THEN /\ step_i' = Upd(step_i, r, i + 1)
                   /\ pc' = Upd(pc, r, "fwd_recv")
                   /\ UNCHANGED stage_k
              ELSE IF stage_k[r] < n_local_stages
              THEN /\ step_i' = Upd(step_i, r, 0)
                   /\ stage_k' = Upd(stage_k, r, stage_k[r] + 1)
                   /\ pc' = Upd(pc, r, "fwd_recv")
              ELSE \* for stage in reversed(self._stages)
                   /\ step_i' = Upd(step_i, r, 0)
                   /\ stage_k' = Upd(stage_k, r, 1)
                   /\ pc' = Upd(pc, r, "bwd_recv")
    /\ waiting' = Upd(waiting, r, <<>>)
    /\ UNCHANGED <<bwd_mb_index, fwd_sends_to_wait, bwd_sends_to_wait,
                   losses>>
    /\ UNCHANGED <<cfgVars, planVars>>

\* forward_one_chunk, the loss, the send whose work is dropped
BFSForward(r) ==
    /\ sched = "LoopedBFS"
    /\ Running(r, "forward")
    /\ AllDone(waiting[r])
    /\ LET i == step_i[r]
           stage == StagesOf(r)[stage_k[r]]
           ops == get_fwd_send_ops(stage)
           b == batch_p2p(ops, r, Net)
       IN  /\ trace' = Log(stage, forward_one_chunk(i))
           /\ internal_losses' =
                 Upd(internal_losses, r,
                     maybe_compute_loss(internal_losses[r], stage,
                                        Output(i, stage), i))
           /\ IF ops # <<>>
              THEN sends' = b.sends /\ recvs' = b.recvs
                     /\ batch_sizes' = batch_sizes \cup {Len(ops)}
              ELSE UNCHANGED <<sends, recvs, batch_sizes>>
           /\ IF i + 1 < n_microbatches
              THEN /\ step_i' = Upd(step_i, r, i + 1)
                   /\ pc' = Upd(pc, r, "fwd_recv")
                   /\ UNCHANGED stage_k
              ELSE IF stage_k[r] < n_local_stages
              THEN /\ step_i' = Upd(step_i, r, 0)
                   /\ stage_k' = Upd(stage_k, r, stage_k[r] + 1)
                   /\ pc' = Upd(pc, r, "fwd_recv")
              ELSE \* for stage in reversed(self._stages)
                   /\ step_i' = Upd(step_i, r, 0)
                   /\ stage_k' = Upd(stage_k, r, n_local_stages)
                   /\ pc' = Upd(pc, r, "bwd_recv")
    /\ waiting' = Upd(waiting, r, <<>>)
    /\ UNCHANGED <<bwd_mb_index, fwd_sends_to_wait, bwd_sends_to_wait,
                   losses>>
    /\ UNCHANGED <<cfgVars, planVars>>

\* variant: the backward phase posts the recvs of the forward phase
BFSBwdRecv_fwd_ops(r) ==
    /\ sched = "LoopedBFS"
    /\ Running(r, "bwd_recv")
    /\ LET i == step_i[r]
           stage == StagesOf(r)[stage_k[r]]
           ops == get_fwd_recv_ops(stage)
           b == batch_p2p(ops, r, Net)
       IN  /\ trace' = Log(stage, configure_data_parallel_mode(
                                    is_last_microbatch(i)))
           /\ IF ops # <<>>
              THEN /\ sends' = b.sends
                   /\ recvs' = b.recvs
                   /\ batch_sizes' = batch_sizes \cup {Len(ops)}
                   /\ waiting' = Upd(waiting, r, <<b.work>>)
              ELSE UNCHANGED <<sends, recvs, batch_sizes, waiting>>
    /\ pc' = Upd(pc, r, "backward")
    /\ UNCHANGED <<step_i, stage_k, bwd_mb_index, fwd_sends_to_wait,
                   bwd_sends_to_wait, internal_losses, losses>>
    /\ UNCHANGED <<cfgVars, planVars>>

BFSBwdRecv(r) ==
    /\ sched = "LoopedBFS"
    /\ Running(r, "bwd_recv")
    /\ LET i == step_i[r]
           stage == StagesOf(r)[stage_k[r]]
           ops == get_bwd_recv_ops(stage)
           b == batch_p2p(ops, r, Net)
       IN  /\ trace' = Log(stage, configure_data_parallel_mode(
                                    is_last_microbatch(i)))
           /\ IF ops # <<>>
              THEN /\ sends' = b.sends
                   /\ recvs' = b.recvs
                   /\ batch_sizes' = batch_sizes \cup {Len(ops)}
                   /\ waiting' = Upd(waiting, r, <<b.work>>)
              ELSE UNCHANGED <<sends, recvs, batch_sizes, waiting>>
    /\ pc' = Upd(pc, r, "backward")
    /\ UNCHANGED <<step_i, stage_k, bwd_mb_index, fwd_sends_to_wait,
                   bwd_sends_to_wait, internal_losses, losses>>
    /\ UNCHANGED <<cfgVars, planVars>>

\* variant: the send batch is issued without asking whether ops is empty
BFSBackward_always_send(r) ==
    /\ sched = "LoopedBFS"
    /\ Running(r, "backward")
    /\ AllDone(waiting[r])
    /\ LET i == step_i[r]
           stage == StagesOf(r)[stage_k[r]]
           g == maybe_get_loss(internal_losses[r], stage, i)
           ops == get_bwd_send_ops(stage)
           b == batch_p2p(ops, r, Net)
       IN  IF g.raised
           THEN /\ pc' = Upd(pc, r, "raised")
                /\ UNCHANGED <<step_i, stage_k, netVars>>
           ELSE /\ trace' = Log(stage, backward_one_chunk(i, g.loss))
                /\ sends' = b.sends
                /\ recvs' = b.recvs
                /\ batch_sizes' = batch_sizes \cup {Len(ops)}
                /\ IF i + 1 < n_microbatches
                   THEN /\ step_i' = Upd(step_i, r, i + 1)
                        /\ pc' = Upd(pc, r, "bwd_recv")
                        /\ UNCHANGED stage_k
                   ELSE IF stage_k[r] > 1
                   THEN /\ step_i' = Upd(step_i, r, 0)
                        /\ stage_k' = Upd(stage_k, r, stage_k[r] - 1)
                        /\ pc' = Upd(pc, r, "bwd_recv")
                   ELSE /\ pc' = Upd(pc, r, "update_losses")
                        /\ UNCHANGED <<step_i, stage_k>>
    /\ waiting' = Upd(waiting, r, <<>>)
    /\ UNCHANGED <<bwd_mb_index, fwd_sends_to_wait, bwd_sends_to_wait,
                   internal_losses, losses>>
    /\ UNCHANGED <<cfgVars, planVars>>

BFSBackward(r) ==
    /\ sched = "LoopedBFS"
    /\ Running(r, "backward")
    /\ AllDone(waiting[r])
    /\ LET i == step_i[r]
           stage == StagesOf(r)[stage_k[r]]
           g == maybe_get_loss(internal_losses[r], stage, i)
           ops == get_bwd_send_ops(stage)
           b == batch_p2p(ops, r, Net)
       IN  IF g.raised
           THEN /\ pc' = Upd(pc, r, "raised")
                /\ UNCHANGED <<step_i, stage_k, netVars>>
           ELSE /\ trace' = Log(stage, backward_one_chunk(i, g.loss))
                /\ IF ops # <<>>
                   THEN sends' = b.sends /\ recvs' = b.recvs
                          /\ batch_sizes' = batch_sizes \cup {Len(ops)}
                   ELSE UNCHANGED <<sends, recvs, batch_sizes>>
                /\ IF i + 1 < n_microbatches
                   THEN /\ step_i' = Upd(step_i, r, i + 1)
                        /\ pc' = Upd(pc, r, "bwd_recv")
                        /\ UNCHANGED stage_k
                   ELSE IF stage_k[r] > 1
                   THEN /\ step_i' = Upd(step_i, r, 0)
                        /\ stage_k' = Upd(stage_k, r, stage_k[r] - 1)
                        /\ pc' = Upd(pc, r, "bwd_recv")
                   ELSE /\ pc' = Upd(pc, r, "update_losses")
                        /\ UNCHANGED <<step_i, stage_k>>
    /\ waiting' = Upd(waiting, r, <<>>)
    /\ UNCHANGED <<bwd_mb_index, fwd_sends_to_wait, bwd_sends_to_wait,
                   internal_losses, losses>>
    /\ UNCHANGED <<cfgVars, planVars>>

BFSFinish(r) ==
    /\ sched = "LoopedBFS"
    /\ Running(r, "update_losses")
    /\ LET u == update_losses(StagesOf(r), internal_losses[r], losses[r])
       IN  /\ internal_losses' = Upd(internal_losses, r, u.internal_losses)
           /\ losses' = Upd(losses, r, u.losses)
           /\ pc' = Upd(pc, r, IF u.raised THEN "raised" ELSE "done")
    /\ UNCHANGED <<step_i, stage_k, bwd_mb_index, waiting,
                   fwd_sends_to_wait, bwd_sends_to_wait>>
    /\ UNCHANGED <<cfgVars, planVars, netVars>>

(* ---- ScheduleInterleaved1F1B._step_microbatches ---- *)
\* stage_index_to_stage has the stages of the rank as keys
Owns(r, s) == \E k \in DOMAIN StagesOf(r) : StagesOf(r)[k] = s
prev_rank(r) == (r - 1) % pp_group_size
next_rank(r) == (r + 1) % pp_group_size

\* variant: the bounds check leaves out the last entry of the row
ActionAt_short(row, time_step) ==
    IF time_step + 1 < Len(row) THEN row[time_step + 1] ELSE NoOp

\* the row entry at time_step, None beyond the end of the row
ActionAt(row, time_step) ==
    IF time_step < Len(row) THEN row[time_step + 1] ELSE NoOp

\* the rank's own action: [raised, trace, internal_losses, ops]
OwnAction(r, action) ==
    LET il == internal_losses[r]
        g == maybe_get_loss(il, action.stage, action.mb)
        quiet == [raised |-> FALSE, trace |-> trace,
                  internal_losses |-> il, ops |-> <<>>]
        fail == [raised |-> TRUE, trace |-> trace,
                 internal_losses |-> il, ops |-> <<>>]
    IN  IF action = NoOp THEN quiet
        ELSE IF ~Owns(r, action.stage) THEN fail
        ELSE IF action.type = FORWARD
        THEN IF action.mb < 0 \/ action.mb >= n_microbatches THEN fail
             ELSE [raised |-> FALSE,
                   trace |-> Log(action.stage, forward_one_chunk(action.mb)),
                   internal_losses |->
                       maybe_compute_loss(il, action.stage,
                           Output(action.mb, action.stage), action.mb),
                   ops |-> get_fwd_send_ops(action.stage)]
        ELSE IF g.raised THEN fail
             ELSE [raised |-> FALSE,
                   trace |-> Log(action.stage,
                                 backward_one_chunk(action.mb, g.loss)),
                   internal_losses |-> il,
                   ops |-> get_bwd_send_ops(action.stage)]


\* variant: compares with the last stage of the first loop of stages
PrevRecv_first_loop(r, prev_rank_action) ==
    IF prev_rank_action # NoOp /\ prev_rank_action.type = FORWARD
          /\ prev_rank_action.stage # pp_group_size - 1
    THEN IF Owns(r, prev_rank_action.stage + 1)
         THEN [raised |-> FALSE,
               ops |-> get_fwd_recv_ops(prev_rank_action.stage + 1)]
         ELSE [raised |-> TRUE, ops |-> <<>>]
    ELSE [raised |-> FALSE, ops |-> <<>>]

\* the recv inferred from the previous rank's action: [raised, ops]
PrevRecv(r, prev_rank_action) ==
    IF prev_rank_action # NoOp /\ prev_rank_action.type = FORWARD
          /\ prev_rank_action.stage # num_stages - 1
    THEN IF Owns(r, prev_rank_action.stage + 1)
         THEN [raised |-> FALSE,
               ops |-> get_fwd_recv_ops(prev_rank_action.stage + 1)]
         ELSE [raised |-> TRUE, ops |-> <<>>]
    ELSE [raised |-> FALSE, ops |-> <<>>]


\* variant: the backward of stage 0 is not left out
NextRecv_first_stage(r, next_rank_action) ==
    IF next_rank_action # NoOp /\ next_rank_action.type = BACKWARD
    THEN IF Owns(r, next_rank_action.stage - 1)
         THEN [raised |-> FALSE,
               ops |-> get_bwd_recv_ops(next_rank_action.stage - 1)]
         ELSE [raised |-> TRUE, ops |-> <<>>]
    ELSE [raised |-> FALSE, ops |-> <<>>]

\* the recv inferred from the next rank's action: [raised, ops]
NextRecv(r, next_rank_action) ==
    IF next_rank_action # NoOp /\ next_rank_action.type = BACKWARD
          /\ next_rank_action.stage # 0
    THEN IF Owns(r, next_rank_action.stage - 1)
         THEN [raised |-> FALSE,
               ops |-> get_bwd_recv_ops(next_rank_action.stage - 1)]
         ELSE [raised |-> TRUE, ops |-> <<>>]
    ELSE [raised |-> FALSE, ops |-> <<>>]

\* after time_step: the next entry of the row, or _update_losses
ILAdvance(r) ==
    /\ step_i' = Upd(step_i, r, step_i[r] + 1)
    /\ pc' = Upd(pc, r, IF step_i[r] + 1 < Len(pipeline_order[r + 1])
                        THEN "compute" ELSE "update_losses")

EnterInterleaved(r) ==
    /\ sched = "Interleaved1F1B"
    /\ Running(r, "start")
    /\ IF check_inputs.result # "ok"
       THEN RaiseAtEntry(r, check_inputs.result)
       ELSE /\ pc' = Upd(pc, r, "compute")
            /\ step_i' = Upd(step_i, r, 0)
            /\ UNCHANGED <<stage_k, bwd_mb_index, waiting,
                           fwd_sends_to_wait, bwd_sends_to_wait,
                           internal_losses, losses>>
            /\ UNCHANGED <<cfgVars, planVars, netVars>>

\* one iteration of the loop over the rank's row, up to the wait
ILCompute(r) ==
    /\ sched = "Interleaved1F1B"
    /\ Running(r, "compute")
    /\ LET time_step == step_i[r]
           own == OwnAction(r, ActionAt(pipeline_order[r + 1], time_step))
           prv == PrevRecv(r, ActionAt(pipeline_order[prev_rank(r) + 1],
                                       time_step))
           nxt == NextRecv(r, ActionAt(pipeline_order[next_rank(r) + 1],
                                       time_step))
           ops == own.ops \o prv.ops \o nxt.ops
           b == batch_p2p(ops, r, Net)
       IN  /\ trace' = own.trace
           /\ internal_losses' =
                 Upd(internal_losses, r, own.internal_losses)
           /\ IF own.raised \/ prv.raised \/ nxt.raised
              THEN /\ pc' = Upd(pc, r, "raised")
                   /\ UNCHANGED <<step_i, waiting, sends, recvs, batch_sizes>>
              ELSE IF ops # <<>>
              THEN /\ sends' = b.sends
                   /\ recvs' = b.recvs
                   /\ batch_sizes' = batch_sizes \cup {Len(ops)}
                   /\ waiting' = Upd(waiting, r, <<b.work>>)
                   /\ pc' = Upd(pc, r, "wait")
                   /\ UNCHANGED step_i
              ELSE /\ ILAdvance(r)
                   /\ UNCHANGED <<waiting, sends, recvs, batch_sizes>>
    /\ UNCHANGED <<stage_k, bwd_mb_index, fwd_sends_to_wait,
                   bwd_sends_to_wait, losses>>
    /\ UNCHANGED <<cfgVars, planVars>>

\* dist.batch_isend_irecv(ops).pop().wait() returns
ILWait(r) ==
    /\ sched = "Interleaved1F1B"
    /\ Running(r, "wait")
    /\ AllDone(waiting[r])
    /\ ILAdvance(r)
    /\ waiting' = Upd(waiting, r, <<>>)
    /\ UNCHANGED <<stage_k, bwd_mb_index, fwd_sends_to_wait,
                   bwd_sends_to_wait, internal_losses, losses>>
    /\ UNCHANGED <<cfgVars, planVars, netVars>>

ILFinish(r) ==
    /\ sched = "Interleaved1F1B"
    /\ Running(r, "update_losses")
    /\ LET u == update_losses(StagesOf(r), internal_losses[r], losses[r])
       IN  /\ internal_losses' = Upd(internal_losses, r, u.internal_losses)
           /\ losses' = Upd(losses, r, u.losses)
           /\ pc' = Upd(pc, r, IF u.raised THEN "raised" ELSE "done")
    /\ UNCHANGED <<step_i, stage_k, bwd_mb_index, waiting,
                   fwd_sends_to_wait, bwd_sends_to_wait>>
    /\ UNCHANGED <<cfgVars, planVars, netVars>>

(* --------------------------- specifications --------------------------- *)
Next ==
    \/ PlanBeginRank
    \/ PlanWarmupStep
    \/ Plan1F1BStep
    \/ PlanCooldownStep
    \/ PlanEndRank
    \/ \E r \in Ranks : EnterGPipe(r)
    \/ \E r \in Ranks : GPipeFwdRecv(r)
    \/ \E r \in Ranks : GPipeForward(r)
    \/ \E r \in Ranks : GPipeFwdSendsWait(r)
    \/ \E r \in Ranks : GPipeBwdRecv(r)
    \/ \E r \in Ranks : GPipeBackward(r)
    \/ \E r \in Ranks : GPipeUpdateLosses(r)
    \/ \E r \in Ranks : GPipeBwdSendsWait(r)
    \/ \E r \in Ranks : Enter1F1B(r)
    \/ \E r \in Ranks : F1BFwdRecv(r)
    \/ \E r \in Ranks : F1BForward(r)
    \/ \E r \in Ranks : F1BBwdRecv(r)
    \/ \E r \in Ranks : F1BBackward(r)
    \/ \E r \in Ranks : F1BFinish(r)
    \/ \E r \in Ranks : EnterBFS(r)
    \/ \E r \in Ranks : BFSFwdRecv(r)
    \/ \E r \in Ranks : BFSForward(r)
    \/ \E r \in Ranks : BFSBwdRecv(r)
    \/ \E r \in Ranks : BFSBackward(r)
    \/ \E r \in Ranks : BFSFinish(r)
    \/ \E r \in Ranks : EnterInterleaved(r)
    \/ \E r \in Ranks : ILCompute(r)
    \/ \E r \in Ranks : ILWait(r)
    \/ \E r \in Ranks : ILFinish(r)

Spec == Init /\ [][Next]_vars

\* the constructor of ScheduleInterleaved1F1B
SpecPlan == InitPlan /\ [][PlanNext]_vars

(* ------------------------------ properties ---------------------------- *)
Owned(r) == {StagesOf(r)[k] : k \in DOMAIN StagesOf(r)}
Fwds(s) == SelectSeq(trace[s], LAMBDA c : c.op = "forward")
Bwds(s) == SelectSeq(trace[s], LAMBDA c : c.op = "backward")
Returned(r) == pc[r] = "done"
Ended(r) == pc[r] \in {"done", "raised"}
AllReturned == \A r \in Ranks : Returned(r)
LastRank == RankOfStage(num_stages - 1)
\* the rank is about to call _update_losses
BeforeDrain(r) == pc[r] \in {"update_losses", "finish"}
\* loss_fn(output of microbatch i on the last stage, target_mbs[i])
LossOf(i) == [mb |-> i, stage |-> num_stages - 1, target |-> i]

\* C1: a _step_microbatches call makes exactly n_microbatches
\* forward_one_chunk calls on every stage of the rank and, with a loss
\* function, exactly n_microbatches backward_one_chunk calls: never more
\* while it runs, exactly that many once it has ended.
C1_CallCounts ==
    \A r \in Ranks : \A s \in Owned(r) :
        /\ Len(Fwds(s)) <= n_microbatches
        /\ Len(Bwds(s)) <= n_microbatches
        /\ Ended(r) => Len(Fwds(s)) = n_microbatches
        /\ (Returned(r) /\ has_backward) => Len(Bwds(s)) = n_microbatches

C1_Witness ==
    /\ sched = "Interleaved1F1B"
    /\ has_backward
    /\ AllReturned

\* C2: on every stage the k-th forward_one_chunk call of an iteration is
\* made with microbatch k (counting from 0).
C2_ForwardOrder ==
    \A s \in Stages : \A k \in 1 .. Len(Fwds(s)) : Fwds(s)[k].mb = k - 1

C2_Witness ==
    /\ sched = "Interleaved1F1B"
    /\ n_microbatches >= 4
    /\ \E s \in Stages : Len(Fwds(s)) = n_microbatches

\* C3: with a loss function, on every stage the k-th backward_one_chunk
\* call is the backward of microbatch k; in 1F1B the backward of step t is
\* that of microbatch bwd_mb_index = t - warmup_steps, and bwd_mb_index is
\* n_microbatches when the loop is left.
C3_BackwardOrder ==
    has_backward =>
        /\ \A s \in Stages :
              \A k \in 1 .. Len(Bwds(s)) : Bwds(s)[k].mb = k - 1
        /\ sched = "1F1B" =>
              \A r \in Ranks :
                 /\ bwd_mb_index[r] = Len(Bwds(r))
                 /\ pc[r] = "backward" =>
                       bwd_mb_index[r] = step_i[r] - warmup_steps_1f1b(r)
                 /\ pc[r] \in {"finish", "done"} =>
                       bwd_mb_index[r] = n_microbatches

C3_Witness ==
    /\ sched = "1F1B"
    /\ has_backward
    /\ pp_group_size >= 2
    /\ pc[0] = "backward"
    /\ bwd_mb_index[0] >= 1
    /\ warmup_steps_1f1b(0) < n_microbatches

\* C4: with a loss function, the rank of the last stage appends
\* loss_fn(output of microbatch i, target_mbs[i]) as its i-th loss, N of
\* them by the time the losses are drained; the backward of microbatch i
\* on the last stage gets internal_losses[i]; the other stages get None
\* and the other ranks append nothing.
C4_LossBookkeeping ==
    has_backward =>
        /\ \A r \in Ranks :
              /\ Len(internal_losses[r]) <= n_microbatches
              /\ \A k \in 1 .. Len(internal_losses[r]) :
                    internal_losses[r][k] = LossOf(k - 1)
              /\ r # LastRank => internal_losses[r] = <<>>
              /\ (r = LastRank /\ BeforeDrain(r)) =>
                    Len(internal_losses[r]) = n_microbatches
              /\ (r = LastRank /\ Returned(r) /\ losses_given) =>
                    losses[r] = [k \in 1 .. n_microbatches |-> LossOf(k - 1)]
        /\ \A s \in Stages : \A k \in 1 .. Len(Bwds(s)) :
              Bwds(s)[k].loss = IF is_last(s) THEN LossOf(Bwds(s)[k].mb)
                                              ELSE NoLoss

C4_Witness ==
    /\ sched = "LoopedBFS"
    /\ has_backward
    /\ losses_given
    /\ n_microbatches >= 3
    /\ Returned(LastRank)
    /\ Len(losses[LastRank]) = n_microbatches

\* the configure call in force at position p of the calls of a stage
ConfigureBefore(calls, p) ==
    CHOOSE q \in 0 .. (p - 1) :
        /\ q # 0 => calls[q].op = "configure"
        /\ \A q2 \in (q + 1) .. (p - 1) : calls[q2].op # "configure"
LastBackwardCalls(s) ==
    {p \in DOMAIN trace[s] :
        trace[s][p].op = "configure" /\ trace[s][p].last_backward}

\* C5: in GPipe, 1F1B and Looped BFS with a loss function, every stage
\* gets configure_data_parallel_mode(last_backward=True) once per
\* iteration; it is the configure call in force at the backward of
\* microbatch N-1, and the earlier backwards run under last_backward=False.
C5_LastBackwardOnce ==
    (has_backward /\ sched \in {"GPipe", "1F1B", "LoopedBFS"}) =>
        \A r \in Ranks : \A s \in Owned(r) :
            /\ Cardinality(LastBackwardCalls(s)) <= 1
            /\ Returned(r) => Cardinality(LastBackwardCalls(s)) = 1
            /\ \A p \in DOMAIN trace[s] :
                  trace[s][p].op = "backward" =>
                     LET q == ConfigureBefore(trace[s], p)
                     IN  /\ q # 0
                         /\ trace[s][q].last_backward =
                               (trace[s][p].mb = n_microbatches - 1)

C5_Witness ==
    /\ sched = "GPipe"
    /\ has_backward
    /\ n_microbatches >= 2
    /\ pp_group_size >= 2
    /\ AllReturned

\* C6: in Interleaved 1F1B with a loss function every stage of the rank
\* gets configure_data_parallel_mode(last_backward=True) exactly once per
\* iteration, before its final backward_one_chunk.
C6_InterleavedLastBackwardOnce ==
    (has_backward /\ sched = "Interleaved1F1B") =>
        \A r \in Ranks : \A s \in Owned(r) :
            /\ Cardinality(LastBackwardCalls(s)) <= 1
            /\ Returned(r) => Cardinality(LastBackwardCalls(s)) = 1
            /\ \A p \in DOMAIN trace[s] :
                  (trace[s][p].op = "backward"
                      /\ trace[s][p].mb = n_microbatches - 1) =>
                     LET q == ConfigureBefore(trace[s], p)
                     IN  q # 0 /\ trace[s][q].last_backward

(* ---- one schedule at a time ---- *)
InitGPipe == Init /\ sched = "GPipe"
NextGPipe ==
    \/ \E r \in Ranks : EnterGPipe(r)
    \/ \E r \in Ranks : GPipeFwdRecv(r)
    \/ \E r \in Ranks : GPipeForward(r)
    \/ \E r \in Ranks : GPipeFwdSendsWait(r)
    \/ \E r \in Ranks : GPipeBwdRecv(r)
    \/ \E r \in Ranks : GPipeBackward(r)
    \/ \E r \in Ranks : GPipeUpdateLosses(r)
    \/ \E r \in Ranks : GPipeBwdSendsWait(r)
SpecGPipe == InitGPipe /\ [][NextGPipe]_vars

Init1F1B == Init /\ sched = "1F1B"
Next1F1B ==
    \/ \E r \in Ranks : Enter1F1B(r)
    \/ \E r \in Ranks : F1BFwdRecv(r)
    \/ \E r \in Ranks : F1BForward(r)
    \/ \E r \in Ranks : F1BBwdRecv(r)
    \/ \E r \in Ranks : F1BBackward(r)
    \/ \E r \in Ranks : F1BFinish(r)
Spec1F1B == Init1F1B /\ [][Next1F1B]_vars

InitInterleaved == Init /\ sched = "Interleaved1F1B"
NextInterleaved ==
    \/ PlanBeginRank
    \/ PlanWarmupStep
    \/ Plan1F1BStep
    \/ PlanCooldownStep
    \/ PlanEndRank
    \/ \E r \in Ranks : EnterInterleaved(r)
    \/ \E r \in Ranks : ILCompute(r)
    \/ \E r \in Ranks : ILWait(r)
    \/ \E r \in Ranks : ILFinish(r)
SpecInterleaved == InitInterleaved /\ [][NextInterleaved]_vars

\* the ops of the works the rank waits for
WaitedOps(r) == UNION {waiting[r][k] : k \in DOMAIN waiting[r]}
NoneRaised == \A r \in Ranks : pc[r] # "raised"

\* C7: 1F1B with a loss function is deadlock-free: until every rank has
\* returned from _step_microbatches, no rank has raised and some rank can
\* take its next step (each step advances a rank in its finite loop).
C7_1F1BNeverStuck ==
    has_backward => (AllReturned \/ (NoneRaised /\ ENABLED Next1F1B))

\* a rank waits for a coalesced send + recv batch while warmup is clamped
C7_Witness ==
    /\ sched = "1F1B"
    /\ has_backward
    /\ n_microbatches < 2 * (pp_group_size - 1)
    /\ \E r \in Ranks :
          /\ pc[r] = "backward"
          /\ ~AllDone(waiting[r])
          /\ \E h \in WaitedOps(r) : h.kind = "send"
          /\ \E h \in WaitedOps(r) : h.kind = "recv"

\* C8 as stated: in Interleaved 1F1B, until every rank has reached the
\* end of its row of pipeline_order and returned from _step_microbatches,
\* no rank has raised and some rank can take its next step.
C8_InterleavedNeverStuck ==
    AllReturned \/ (NoneRaised /\ ENABLED NextInterleaved)

\* C8: the same, when a loss function is given or no losses list is
\* passed.
C8_InterleavedNeverStuckValid ==
    (has_backward \/ ~losses_given) =>
        (AllReturned \/ (NoneRaised /\ ENABLED NextInterleaved))

\* a rank waits for the batch of a time step that holds a send and a recv
C8_Witness ==
    /\ sched = "Interleaved1F1B"
    /\ has_backward
    /\ \E r \in Ranks :
          /\ pc[r] = "wait"
          /\ ~AllDone(waiting[r])
          /\ \E h \in WaitedOps(r) : h.kind = "send"
          /\ \E h \in WaitedOps(r) : h.kind = "recv"

\* C9: GPipe is deadlock-free: until every rank has finished the forward
\* phase and the backward phase and returned, no rank has raised and some
\* rank can take its next step.
C9_GPipeNeverStuck == AllReturned \/ (NoneRaised /\ ENABLED NextGPipe)

\* a rank waits for its deferred forward sends before the backward phase
C9_Witness ==
    /\ sched = "GPipe"
    /\ has_backward
    /\ \E r \in Ranks :
          /\ pc[r] = "fwd_sends_wait"
          /\ ~AllDone(fwd_sends_to_wait[r])

\* C10: in the rows of pipeline_order, FORWARD(i, s + 1) sits in the row
\* of the next rank at a slot strictly greater than the slot of
\* FORWARD(i, s), so the forward of microbatch i on stage s returns before
\* the forward on stage s + 1 starts.
C10_ForwardCausality ==
    plan_pc = "done" =>
        \A r \in Ranks :
            LET row == pipeline_order[r + 1]
                nxt == pipeline_order[next_rank(r) + 1]
            IN  \A t \in DOMAIN row :
                   (row[t].type = FORWARD /\ row[t].stage # num_stages - 1)
                   => \E t2 \in DOMAIN nxt :
                         /\ t2 > t
                         /\ nxt[t2] =
                               Slot(FORWARD, row[t].mb, row[t].stage + 1)

\* C11: in the rows of pipeline_order, BACKWARD(i, s - 1) sits in the row
\* of the previous rank at a slot strictly greater than the slot of
\* BACKWARD(i, s), so the backward of microbatch i on stage s returns
\* before the backward on stage s - 1 starts.
C11_BackwardCausality ==
    plan_pc = "done" =>
        \A r \in Ranks :
            LET row == pipeline_order[r + 1]
                prv == pipeline_order[prev_rank(r) + 1]
            IN  \A t \in DOMAIN row :
                   (row[t].type = BACKWARD /\ row[t].stage # 0)
                   => \E t2 \in DOMAIN prv :
                         /\ t2 > t
                         /\ prv[t2] =
                               Slot(BACKWARD, row[t].mb, row[t].stage - 1)

(* ---- the step counts of Schedule1F1B on longer pipelines ---- *)
InitCounts ==
    /\ sched = "1F1B"
    /\ pp_group_size \in 1 .. MaxCountStages
    /\ n_local_stages = 1
    /\ n_microbatches \in 1 .. MaxCountMicrobatches
    /\ has_backward \in BOOLEAN
    /\ losses_given \in BOOLEAN
    /\ plan_pc = "done"
    /\ MatchingInputs
    /\ Constructed
    /\ NoBatch
    /\ NoReturn
    /\ InitRun
NextCounts == \E r \in Ranks : Enter1F1B(r)
SpecCounts == InitCounts /\ [][NextCounts]_vars

\* the rank has computed its step counts
Counted(r) == pc[r] # "start"

\* C12 as stated: in 1F1B, on every stage that has computed its step
\* counts, warmup_steps + main_1f1b_steps
\* + cooldown_steps = total_steps = 2 * n_microbatches.
C12_TotalIsTwiceN ==
    \A s \in Stages : Counted(s) =>
        /\ warmup_steps_1f1b(s) + main_1f1b_steps(s) + cooldown_steps_1f1b(s)
              = total_steps(s)
        /\ total_steps(s) = 2 * n_microbatches

\* C12: in 1F1B, on every stage, warmup_steps + main_1f1b_steps +
\* cooldown_steps = total_steps = n_microbatches + warmup_steps, and the
\* forward and backward computations of these steps count
\* warmup_steps + 2 * main_1f1b_steps + cooldown_steps = 2 * n_microbatches.
C12_StepCounts ==
    \A s \in Stages : Counted(s) =>
        /\ warmup_steps_1f1b(s) + main_1f1b_steps(s) + cooldown_steps_1f1b(s)
              = total_steps(s)
        /\ total_steps(s) = n_microbatches + warmup_steps_1f1b(s)
        /\ warmup_steps_1f1b(s) + 2 * main_1f1b_steps(s)
              + cooldown_steps_1f1b(s) = 2 * n_microbatches

\* a stage with 0 < warmup < N has entered its loop
C12_Witness ==
    \E r \in Ranks :
        /\ Counted(r)
        /\ warmup_steps_1f1b(r) > 0
        /\ warmup_steps_1f1b(r) < n_microbatches

\* the step counts of stage s as <<warmup, 1f1b, cooldown>>
Phases(s) ==
    <<warmup_steps_1f1b(s), main_1f1b_steps(s), cooldown_steps_1f1b(s)>>

\* C13: in 1F1B warmup = min(N, 2 * (S - s - 1)), main = N - warmup,
\* cooldown = warmup and total = N + warmup on every stage; with S = 4 and
\* N = 8 the stages get (6,2,6), (4,4,4), (2,6,2), (0,8,0), total 12 on
\* stage 1 and total 8 on stage 3, where every step lies in the 1F1B phase
\* (and, with a loss function, is a 1F1B step).
C13_PhaseArithmetic ==
    /\ \A s \in Stages : Counted(s) =>
          /\ warmup_steps_1f1b(s) <= n_microbatches
          /\ warmup_steps_1f1b(s) <= 2 * (pp_group_size - s - 1)
          /\ \/ warmup_steps_1f1b(s) = n_microbatches
             \/ warmup_steps_1f1b(s) = 2 * (pp_group_size - s - 1)
          /\ main_1f1b_steps(s) = n_microbatches - warmup_steps_1f1b(s)
          /\ cooldown_steps_1f1b(s) = warmup_steps_1f1b(s)
          /\ total_steps(s) = n_microbatches + warmup_steps_1f1b(s)
    /\ (pp_group_size = 4 /\ n_microbatches = 8) =>
          /\ Counted(0) => Phases(0) = <<6, 2, 6>>
          /\ Counted(1) => (Phases(1) = <<4, 4, 4>> /\ total_steps(1) = 12)
          /\ Counted(2) => Phases(2) = <<2, 6, 2>>
          /\ Counted(3) => (Phases(3) = <<0, 8, 0>> /\ total_steps(3) = 8)
          /\ \A i \in 0 .. (total_steps(3) - 1) :
                Counted(3) =>
                   /\ warmup_steps_1f1b(3) <= i
                   /\ i < warmup_steps_1f1b(3) + main_1f1b_steps(3)
                   /\ has_backward => is_1f1b_step(i, 3) = T3

\* the four stages of the example have entered their loops
C13_Witness ==
    /\ pp_group_size = 4
    /\ n_microbatches = 8
    /\ has_backward
    /\ \A r \in Ranks : Counted(r)

(* ---- _step_microbatches called with arbitrary arguments ---- *)
\* None, a list of any length, or a non-list of n_microbatches elements
InputMbs ==
    {NoMbs} \cup {Mbs(TRUE, n) : n \in 0 .. MaxInputLen}
            \cup {Mbs(FALSE, n_microbatches)}

InitInputs ==
    /\ sched \in Schedules
    /\ pp_group_size \in 1 .. MaxInputRanks
    /\ n_local_stages \in 1 .. 2
    /\ n_microbatches \in 1 .. MaxInputLen
    /\ has_backward = TRUE
    /\ \/ /\ sched \in {"GPipe", "1F1B"}
          /\ n_local_stages = 1
       \/ /\ sched = "LoopedBFS"
          /\ pp_group_size >= 2
          /\ n_local_stages = 2
       \/ /\ sched = "Interleaved1F1B"
          /\ pp_group_size >= 2
          /\ n_local_stages = 2
          /\ n_microbatches = pp_group_size
    /\ arg_mbs \in InputMbs
    /\ kwarg_mbs \in InputMbs
    /\ target_mbs \in InputMbs
    /\ losses_type \in {"None", "list", "other"}
    /\ losses_given = (losses_type # "None")
    /\ plan_pc = IF sched = "Interleaved1F1B" THEN "begin" ELSE "done"
    /\ Constructed
    /\ NoBatch
    /\ NoReturn
    /\ InitRun
NextInputs ==
    \/ PlanBeginRank
    \/ PlanWarmupStep
    \/ Plan1F1BStep
    \/ PlanCooldownStep
    \/ PlanEndRank
    \/ \E r \in Ranks : EnterGPipe(r)
    \/ \E r \in Ranks : Enter1F1B(r)
    \/ \E r \in Ranks : EnterBFS(r)
    \/ \E r \in Ranks : EnterInterleaved(r)
SpecInputs == InitInputs /\ [][NextInputs]_vars

ConfigErrors == {"TypeError", "ValueError"}
\* the argument is present and is not a list of n_microbatches elements
WrongType(mbs) == mbs.given /\ ~mbs.is_list
WrongLen(mbs) == mbs.given /\ mbs.is_list /\ mbs.len # n_microbatches
AnyWrongType ==
    \/ WrongType(arg_mbs) \/ WrongType(kwarg_mbs) \/ WrongType(target_mbs)
    \/ losses_type = "other"
AnyWrongLen ==
    WrongLen(arg_mbs) \/ WrongLen(kwarg_mbs) \/ WrongLen(target_mbs)

\* C14: in each of the four schedules, when _step_microbatches is entered
\* with an arg_mbs, kwarg_mbs or target_mbs list whose length is not the
\* n_microbatches of the schedule, or with a non-list in their place or in
\* place of losses, the call ends with ValueError or TypeError (ValueError
\* when only lengths are wrong, TypeError when only types are wrong) and
\* makes no call on a stage and posts no send or recv; otherwise the arg
\* and kwarg lists used have n_microbatches elements.
C14_ConfigErrorAtEntry ==
    [][\A r \in Ranks :
          (pc[r] = "start" /\ pc'[r] # "start") =>
             IF AnyWrongType \/ AnyWrongLen
             THEN /\ pc'[r] \in ConfigErrors
                  /\ ~AnyWrongType => pc'[r] = "ValueError"
                  /\ ~AnyWrongLen => pc'[r] = "TypeError"
                  /\ UNCHANGED <<trace, sends, recvs>>
             ELSE /\ pc'[r] \notin ConfigErrors
                  /\ check_inputs.arg_len = n_microbatches'
                  /\ check_inputs.kwarg_len = n_microbatches']_vars

(* ---- the constructors of the multi-stage schedules ---- *)
NotMultiple == "ValueError: not a multiple of the pipeline ranks"
TooFewStages == "ValueError: expects at least two stages"
CtorErrors == {NotMultiple, TooFewStages, "IndexError"}

\* PipelineScheduleMulti.__init__: the exception it raises or "ok", and
\* the has_backward flags of the stages when it ends
MultiInit ==
    IF n_local_stages <= 1
    THEN [result |-> TooFewStages, flags |-> stage_has_backward]
    ELSE [result |-> "ok", flags |-> SetFlags]

\* ScheduleLoopedBFS has no constructor of its own
ConstructBFS ==
    /\ sched = "LoopedBFS"
    /\ plan_pc = "construct"
    /\ plan_pc' = IF MultiInit.result = "ok" THEN "done" ELSE MultiInit.result
    /\ stage_has_backward' = MultiInit.flags
    /\ UNCHANGED <<sched, pp_group_size, n_local_stages, n_microbatches,
                   has_backward, losses_given, inputVars, batchVars, callVars, group_rank,
                   other_pipeline_order>>
    /\ UNCHANGED <<plan_rank, plan_step, rank_ops, fwd_stage_mb_index,
                   bwd_stage_mb_index, pipeline_order>>
    /\ UNCHANGED <<rankVars, netVars>>

\* variant: the parent constructor runs before the check of n_microbatches
ConstructInterleaved_super_first ==
    /\ sched = "Interleaved1F1B"
    /\ plan_pc = "construct"
    /\ IF n_local_stages = 0
       THEN plan_pc' = "IndexError" /\ UNCHANGED stage_has_backward
       ELSE IF MultiInit.result # "ok"
       THEN plan_pc' = MultiInit.result /\ UNCHANGED stage_has_backward
       ELSE /\ stage_has_backward' = MultiInit.flags
            /\ plan_pc' = IF n_microbatches % pp_group_size # 0
                          THEN NotMultiple ELSE "begin"
    /\ UNCHANGED <<sched, pp_group_size, n_local_stages, n_microbatches,
                   has_backward, losses_given, inputVars, batchVars, callVars, group_rank,
                   other_pipeline_order>>
    /\ UNCHANGED <<plan_rank, plan_step, rank_ops, fwd_stage_mb_index,
                   bwd_stage_mb_index, pipeline_order>>
    /\ UNCHANGED <<rankVars, netVars>>

\* ScheduleInterleaved1F1B.__init__ up to the loop that fills
\* pipeline_order: stages[0].group_size, the check of n_microbatches, the
\* parent constructor
ConstructInterleaved ==
    /\ sched = "Interleaved1F1B"
    /\ plan_pc = "construct"
    /\ IF n_local_stages = 0
       THEN plan_pc' = "IndexError" /\ UNCHANGED stage_has_backward
       ELSE IF n_microbatches % pp_group_size # 0
       THEN plan_pc' = NotMultiple /\ UNCHANGED stage_has_backward
       ELSE /\ plan_pc' = IF MultiInit.result = "ok" THEN "begin"
                                                     ELSE MultiInit.result
            /\ stage_has_backward' = MultiInit.flags
    /\ UNCHANGED <<sched, pp_group_size, n_local_stages, n_microbatches,
                   has_backward, losses_given, inputVars, batchVars, callVars, group_rank,
                   other_pipeline_order>>
    /\ UNCHANGED <<plan_rank, plan_step, rank_ops, fwd_stage_mb_index,
                   bwd_stage_mb_index, pipeline_order>>
    /\ UNCHANGED <<rankVars, netVars>>

InitConstruct ==
    /\ sched \in {"LoopedBFS", "Interleaved1F1B"}
    /\ pp_group_size \in 1 .. MaxCtorRanks
    /\ n_local_stages \in 0 .. MaxLocalStages
    /\ n_microbatches \in 1 .. MaxCtorMicrobatches
    /\ has_backward \in BOOLEAN
    /\ losses_given = FALSE
    /\ MatchingInputs
    /\ group_rank \in Ranks
    /\ stage_has_backward = [k \in 1 .. n_local_stages |-> Unset]
    /\ other_pipeline_order = NotBuilt
    /\ plan_pc = "construct"
    /\ NoBatch
    /\ NoReturn
    /\ InitRun
NextConstruct ==
    \/ ConstructBFS
    \/ ConstructInterleaved
    \/ PlanBeginRank
    \/ PlanWarmupStep
    \/ Plan1F1BStep
    \/ PlanCooldownStep
    \/ PlanEndRank
SpecConstruct == InitConstruct /\ [][NextConstruct]_vars

NoFlagWritten == \A k \in DOMAIN stage_has_backward : stage_has_backward[k] = Unset

\* C15: the constructor of ScheduleInterleaved1F1B, given at least one
\* stage, raises ValueError when n_microbatches is not a multiple of the
\* group size, with pipeline_order not computed and no has_backward flag
\* of a stage written; with a multiple (and at least two stages) it raises
\* nothing and ends with pp_group_size rows in pipeline_order.
C15_MultipleOfRanks ==
    (sched = "Interleaved1F1B" /\ plan_pc # "construct") =>
        /\ (n_local_stages >= 1 /\ n_microbatches % pp_group_size # 0) =>
              /\ plan_pc = NotMultiple
              /\ pipeline_order = <<>>
              /\ NoFlagWritten
        /\ (n_local_stages >= 2 /\ n_microbatches % pp_group_size = 0) =>
              /\ plan_pc \notin CtorErrors
              /\ Len(pipeline_order) <= pp_group_size
              /\ plan_pc = "done" => Len(pipeline_order) = pp_group_size
        /\ plan_pc = NotMultiple => n_microbatches % pp_group_size # 0

\* the constructor raised for a non-multiple with a usable stage list
C15_Witness ==
    /\ sched = "Interleaved1F1B"
    /\ n_local_stages >= 2
    /\ pp_group_size >= 2
    /\ n_microbatches > pp_group_size
    /\ plan_pc = NotMultiple

\* C16: the constructor of ScheduleLoopedBFS or ScheduleInterleaved1F1B,
\* given a list of 0 or 1 stages, raises the ValueError 'expects at least
\* two stages' and has written no has_backward flag of a stage.
C16_AtLeastTwoStages ==
    (n_local_stages <= 1 /\ plan_pc # "construct") =>
        /\ plan_pc = TooFewStages
        /\ NoFlagWritten

(* ---- the shape of a row of pipeline_order ---- *)
\* the number of warmup slots the row of rank r is to have
RowWarmup(r) ==
    LET a == (n_local_stages - 1) * pp_group_size + 2 * (pp_group_size - 1 - r)
        b == n_microbatches * n_local_stages
    IN  IF a <= b THEN a ELSE b
RowExtra(r) == IF r = 0 THEN 2 ELSE 0
RowPairs(r) == n_microbatches * n_local_stages - RowWarmup(r)
\* the type the slot at position t (from 1) of the row of rank r is to have
RowType(r, t) ==
    LET w == RowWarmup(r)
        a == r + w + RowExtra(r)
        b == a + 2 * RowPairs(r)
        c == b + 2 * w
    IN  IF t <= r THEN "None"
        ELSE IF t <= r + w THEN FORWARD
        ELSE IF t <= a THEN "None"
        ELSE IF t <= b THEN (IF (t - a) % 2 = 1 THEN FORWARD ELSE BACKWARD)
        ELSE IF t <= c THEN (IF (t - b) % 2 = 1 THEN "None" ELSE BACKWARD)
        ELSE "None"
RowLen(r) ==
    r + RowWarmup(r) + RowExtra(r) + 2 * RowPairs(r) + 2 * RowWarmup(r)
      + (pp_group_size - r - 1)
RealOps(row) == Cardinality({t \in DOMAIN row : row[t] # NoOp})

\* C17: the row of rank r in pipeline_order is r no-ops, warmup(r) =
\* min((L-1)*G + 2*(G-1-r), N*L) FORWARD slots, 2 no-ops on rank 0 only,
\* N*L - warmup(r) pairs FORWARD, BACKWARD, warmup(r) pairs no-op,
\* BACKWARD, and G-r-1 no-ops; it holds 2*N*L real ops, the assertion of
\* the planner never fails, and for G=4, L=2, N=8 rank 0 has warmup 10,
\* fwd_bwd 6, cooldown 10 and 3 trailing no-ops.
C17_RowShape ==
    /\ plan_pc # "AssertionError"
    /\ \A r \in Ranks :
          r < Len(pipeline_order) =>
             LET row == pipeline_order[r + 1]
             IN  /\ Len(row) = RowLen(r)
                 /\ \A t \in DOMAIN row : row[t].type = RowType(r, t)
                 /\ RealOps(row) = 2 * n_microbatches * n_local_stages
    /\ (pp_group_size = 4 /\ n_local_stages = 2 /\ n_microbatches = 8
           /\ Len(pipeline_order) >= 1) =>
          /\ warmup_steps(0) = 10
          /\ fwd_bwd_steps(0) = 6
          /\ cooldown_steps(0) = 10
          /\ Len(pipeline_order[1]) = 10 + 2 + 2 * 6 + 2 * 10 + 3
          /\ pipeline_order[1][1] # NoOp
          /\ \A t \in 11 .. 12 : pipeline_order[1][t] = NoOp
          /\ \A t \in 45 .. 47 : pipeline_order[1][t] = NoOp
          /\ pipeline_order[1][44].type = BACKWARD

\* the plan of the example is complete
C17_Witness ==
    /\ plan_pc = "done"
    /\ pp_group_size = 4
    /\ n_local_stages = 2
    /\ n_microbatches = 8

(* ---- two schedule objects of one pipeline, built on two ranks ---- *)
InitTwoPlans ==
    /\ sched = "Interleaved1F1B"
    /\ pp_group_size \in 2 .. MaxPlanRanks
    /\ n_local_stages \in 2 .. MaxLocalStages
    /\ n_microbatches \in 1 .. (MaxPlanRanks * MaxRounds)
    /\ \E k \in 1 .. MaxRounds : n_microbatches = pp_group_size * k
    /\ has_backward = TRUE
    /\ losses_given = TRUE
    /\ plan_pc = "begin"
    /\ MatchingInputs
    /\ group_rank \in Ranks
    /\ stage_has_backward = SetFlags
    /\ other_pipeline_order = NotBuilt
    /\ NoBatch
    /\ NoReturn
    /\ InitRun

\* the constructor runs again, for the stages of another rank, with the
\* same group size, number of local stages and n_microbatches
BuildOnOtherRank ==
    /\ plan_pc = "done"
    /\ other_pipeline_order = NotBuilt
    /\ other_pipeline_order' = pipeline_order
    /\ group_rank' \in Ranks \ {group_rank}
    /\ plan_pc' = "begin"
    /\ plan_rank' = 0
    /\ plan_step' = 0
    /\ rank_ops' = <<>>
    /\ pipeline_order' = <<>>
    /\ UNCHANGED <<fwd_stage_mb_index, bwd_stage_mb_index>>
    /\ UNCHANGED <<sched, pp_group_size, n_local_stages, n_microbatches,
                   has_backward, losses_given, inputVars, batchVars, callVars,
                   stage_has_backward>>
    /\ UNCHANGED <<rankVars, netVars>>

NextTwoPlans ==
    \/ PlanBeginRank
    \/ PlanWarmupStep
    \/ Plan1F1BStep
    \/ PlanCooldownStep
    \/ PlanEndRank
    \/ BuildOnOtherRank
SpecTwoPlans == InitTwoPlans /\ [][NextTwoPlans]_vars

\* C18: two ScheduleInterleaved1F1B objects built on different ranks with
\* the same group size, number of local stages and n_microbatches hold the
\* same pipeline_order, row by row and slot by slot.
C18_SamePlanOnEveryRank ==
    other_pipeline_order # NotBuilt =>
        /\ \A r \in DOMAIN pipeline_order :
              pipeline_order[r] = other_pipeline_order[r]
        /\ plan_pc = "done" => pipeline_order = other_pipeline_order

\* the second object is complete, built on another rank than the first
C18_Witness ==
    /\ other_pipeline_order # NotBuilt
    /\ plan_pc = "done"
    /\ group_rank # 0
    /\ n_microbatches > pp_group_size

(* ---- sends of a row against the recvs inferred on the neighbour ---- *)
Row(r) == pipeline_order[r + 1]
Iterates(r, t) == t < Len(Row(r))
LongestRow ==
    CHOOSE n \in 0 .. 200 :
        /\ \A r \in Ranks : Len(Row(r)) <= n
        /\ \E r \in Ranks : Len(Row(r)) = n
TimeSteps == 0 .. (LongestRow - 1)

\* rank r's loop has an iteration t whose slot makes it post a send
FwdSendAt(r, t) ==
    /\ Iterates(r, t)
    /\ Row(r)[t + 1].type = FORWARD
    /\ Row(r)[t + 1].stage # num_stages - 1
BwdSendAt(r, t) ==
    /\ Iterates(r, t)
    /\ Row(r)[t + 1].type = BACKWARD
    /\ Row(r)[t + 1].stage > 0

\* the recv ops rank q adds in iteration t, none when it has no iteration t
FwdRecvOpsAt(q, t) ==
    IF Iterates(q, t)
    THEN PrevRecv(q, ActionAt(Row(prev_rank(q)), t))
    ELSE [raised |-> FALSE, ops |-> <<>>]
BwdRecvOpsAt(q, t) ==
    IF Iterates(q, t)
    THEN NextRecv(q, ActionAt(Row(next_rank(q)), t))
    ELSE [raised |-> FALSE, ops |-> <<>>]

\* C19: in the built plan, rank r's slot t is a FORWARD on a stage s other
\* than the last exactly when rank (r+1) mod G adds the fwd-recv ops of
\* stage s+1 in its iteration t, and is a BACKWARD on a stage s > 0 exactly
\* when rank (r-1) mod G adds the bwd-recv ops of stage s-1 in its iteration
\* t; so no send falls at a step at or after the end of the receiver's row.
C19_SendRecvSameStep ==
    plan_pc = "done" =>
        \A r \in Ranks : \A t \in TimeSteps :
            /\ ~FwdRecvOpsAt(next_rank(r), t).raised
            /\ ~BwdRecvOpsAt(prev_rank(r), t).raised
            /\ IF FwdSendAt(r, t)
               THEN /\ t < Len(Row(next_rank(r)))
                    /\ FwdRecvOpsAt(next_rank(r), t).ops # <<>>
                    /\ FwdRecvOpsAt(next_rank(r), t).ops =
                          get_fwd_recv_ops(Row(r)[t + 1].stage + 1)
               ELSE FwdRecvOpsAt(next_rank(r), t).ops = <<>>
            /\ IF BwdSendAt(r, t)
               THEN /\ t < Len(Row(prev_rank(r)))
                    /\ BwdRecvOpsAt(prev_rank(r), t).ops # <<>>
                    /\ BwdRecvOpsAt(prev_rank(r), t).ops =
                          get_bwd_recv_ops(Row(r)[t + 1].stage - 1)
               ELSE BwdRecvOpsAt(prev_rank(r), t).ops = <<>>

\* a built plan with rows of different lengths, a forward send that wraps
\* from the last rank to rank 0 and a backward send that wraps back
C19_Witness ==
    /\ plan_pc = "done"
    /\ pp_group_size >= 3
    /\ \E r \in Ranks : Len(Row(r)) < LongestRow
    /\ \E t \in TimeSteps : FwdSendAt(pp_group_size - 1, t)
    /\ \E t \in TimeSteps : BwdSendAt(0, t)

(* ---- _sorted_batch_p2p on its own ---- *)
\* the lists of at most n ops of the set S
RECURSIVE OpLists(_, _)
OpLists(S, n) ==
    IF n = 0 THEN {<<>>}
    ELSE LET shorter == OpLists(S, n - 1)
         IN  shorter \cup
             {Append(l, op) : l \in {x \in shorter : Len(x) = n - 1},
                              op \in S}

\* a send or a recv of rank r with a peer of the group
OpsOf(r) ==
    {P2POp("send", peer, "fwd", r, peer) : peer \in Ranks} \cup
    {P2POp("recv", peer, "fwd", peer, r) : peer \in Ranks}

InitBatch ==
    /\ sched = "GPipe"
    /\ pp_group_size = MaxBatchRanks
    /\ n_local_stages = 1
    /\ n_microbatches = 1
    /\ has_backward = FALSE
    /\ losses_given = FALSE
    /\ plan_pc = "done"
    /\ MatchingInputs
    /\ group_rank \in Ranks
    /\ stage_has_backward = SetFlags
    /\ other_pipeline_order = NotBuilt
    /\ p2p_ops \in OpLists(OpsOf(group_rank), MaxBatchOps)
    /\ batch_calls = <<>>
    /\ work_by_peer = <<>>
    /\ NoReturn
    /\ InitRun

\* rank group_rank calls _sorted_batch_p2p(p2p_ops) and gets the dict back
SortedBatch ==
    /\ pc[group_rank] = "start"
    /\ LET b == sorted_batch_p2p(p2p_ops, group_rank, Net)
       IN  /\ sends' = b.sends
           /\ recvs' = b.recvs
           /\ batch_sizes' = batch_sizes \cup BatchSizes(b.calls)
           /\ batch_calls' = b.calls
           /\ work_by_peer' =
                 [peer \in {b.keys[k] : k \in DOMAIN b.keys} |->
                     LET k == CHOOSE k \in DOMAIN b.keys : b.keys[k] = peer
                     IN  b.works[k]]
    /\ pc' = Upd(pc, group_rank, "returned")
    /\ UNCHANGED <<sched, pp_group_size, n_local_stages, n_microbatches,
                   has_backward, losses_given, inputVars, ctorVars, p2p_ops, callVars>>
    /\ UNCHANGED <<step_i, stage_k, bwd_mb_index, waiting, fwd_sends_to_wait,
                   bwd_sends_to_wait, internal_losses, losses>>
    /\ UNCHANGED <<planVars, trace>>

NextBatch == SortedBatch
SpecBatch == InitBatch /\ [][NextBatch]_vars

BatchReturned == pc[group_rank] = "returned"
PeersIn(ops) == {ops[k].peer : k \in DOMAIN ops}
\* the indexes of the ops of `ops` whose peer is `peer`
IndexesOf(ops, peer) == {k \in DOMAIN ops : ops[k].peer = peer}
\* `sub` is made of the ops at the indexes I of `ops`, in index order
TakenInOrder(sub, ops, I) ==
    /\ Len(sub) = Cardinality(I)
    /\ \A k \in DOMAIN sub :
          \E i \in I : /\ Cardinality({j \in I : j <= i}) = k
                       /\ sub[k] = ops[i]

\* C20: _sorted_batch_p2p makes one _batch_p2p call per distinct peer of
\* p2p_ops, in strictly ascending peer order; the call of a peer carries
\* the ops of that peer, all of them, in their order in p2p_ops; the keys
\* of the returned dict are those peers; an empty p2p_ops makes no call and
\* returns an empty dict.
C20_OneCallPerPeerAscending ==
    BatchReturned =>
        /\ Len(batch_calls) = Cardinality(PeersIn(p2p_ops))
        /\ \A k \in DOMAIN batch_calls :
              /\ batch_calls[k] # <<>>
              /\ \A j \in DOMAIN batch_calls[k] :
                    batch_calls[k][j].peer = batch_calls[k][1].peer
              /\ TakenInOrder(batch_calls[k], p2p_ops,
                              IndexesOf(p2p_ops, batch_calls[k][1].peer))
        /\ \A k, j \in DOMAIN batch_calls :
              k < j => batch_calls[k][1].peer < batch_calls[j][1].peer
        /\ DOMAIN work_by_peer = PeersIn(p2p_ops)
        /\ p2p_ops = <<>> => batch_calls = <<>> /\ work_by_peer = <<>>

\* a call on a list whose peers are out of order and interleaved
C20_Witness ==
    /\ BatchReturned
    /\ Len(p2p_ops) = 3
    /\ p2p_ops[1].peer > p2p_ops[2].peer
    /\ p2p_ops[3].peer = p2p_ops[1].peer
    /\ p2p_ops[3] # p2p_ops[1]
    /\ Len(batch_calls) = 2

(* ---- _maybe_get_loss and _update_losses on their own ---- *)
\* the lists of at most n elements of the set S
RECURSIVE ListsOf(_, _)
ListsOf(S, n) ==
    IF n = 0 THEN {<<>>}
    ELSE LET shorter == ListsOf(S, n - 1)
         IN  shorter \cup
             {Append(l, x) : l \in {y \in shorter : Len(y) = n - 1},
                             x \in S}

\* losses an iteration can have computed, and one left by the caller
SomeLosses == {compute_loss(Output(mb, num_stages - 1), mb) : mb \in 0 .. 1}
StaleLoss == [mb |-> 0, stage |-> num_stages - 1, target |-> -1]

\* a schedule object of rank group_rank with any internal_losses, and any
\* container of the caller
InitLoss ==
    /\ sched = "LoopedBFS"
    /\ pp_group_size \in 1 .. MaxLossRanks
    /\ n_local_stages \in 1 .. MaxLossStages
    /\ n_microbatches \in 1 .. MaxLossLen
    /\ has_backward \in BOOLEAN
    /\ losses_given \in BOOLEAN
    /\ plan_pc = "done"
    /\ MatchingInputs
    /\ group_rank \in Ranks
    /\ stage_has_backward = SetFlags
    /\ other_pipeline_order = NotBuilt
    /\ NoBatch
    /\ NoReturn
    /\ plan_rank = 0
    /\ plan_step = 0
    /\ rank_ops = <<>>
    /\ fwd_stage_mb_index = [s \in Stages |-> 0]
    /\ bwd_stage_mb_index = [s \in Stages |-> 0]
    /\ pipeline_order = <<>>
    /\ pc = [r \in Ranks |-> "start"]
    /\ step_i = [r \in Ranks |-> 0]
    /\ stage_k = [r \in Ranks |-> 1]
    /\ bwd_mb_index = [r \in Ranks |-> 0]
    /\ waiting = [r \in Ranks |-> <<>>]
    /\ fwd_sends_to_wait = [r \in Ranks |-> <<>>]
    /\ bwd_sends_to_wait = [r \in Ranks |-> <<>>]
    /\ \E il \in ListsOf(SomeLosses, MaxLossLen + 1) :
          internal_losses =
              [r \in Ranks |-> IF r = group_rank THEN il ELSE <<>>]
    /\ \E ext \in ListsOf({StaleLoss}, MaxLossLen) :
          losses = [r \in Ranks |-> IF r = group_rank /\ losses_given
                                    THEN ext ELSE <<>>]
    /\ trace = [s \in Stages |-> <<>>]
    /\ sends = [ch \in Ranks \X Ranks |-> <<>>]
    /\ recvs = [ch \in Ranks \X Ranks |-> <<>>]
    /\ batch_sizes = {}

\* loss = self._maybe_get_loss(stage, mb_index)
GetLoss(s, mb_index) ==
    /\ pc[group_rank] = "start"
    /\ LET g == maybe_get_loss(internal_losses[group_rank], s, mb_index)
       IN  /\ returned' = Upd(returned, group_rank, Value(g))
           /\ pc' = Upd(pc, group_rank,
                        IF g.raised THEN "RuntimeError" ELSE "got_loss")
    /\ UNCHANGED <<sched, pp_group_size, n_local_stages, n_microbatches,
                   has_backward, losses_given, inputVars, ctorVars,
                   batchVars, step_calls>>
    /\ UNCHANGED <<step_i, stage_k, bwd_mb_index, waiting, fwd_sends_to_wait,
                   bwd_sends_to_wait, internal_losses, losses>>
    /\ UNCHANGED <<planVars, netVars>>

\* self._update_losses(self._stages, losses)
UpdateLosses ==
    /\ pc[group_rank] = "start"
    /\ LET u == update_losses(StagesOf(group_rank),
                              internal_losses[group_rank],
                              losses[group_rank])
       IN  /\ internal_losses' =
                 Upd(internal_losses, group_rank, u.internal_losses)
           /\ losses' = Upd(losses, group_rank, u.losses)
           /\ pc' = Upd(pc, group_rank,
                        IF u.raised THEN "RuntimeError" ELSE "updated")
    /\ UNCHANGED <<step_i, stage_k, bwd_mb_index, waiting, fwd_sends_to_wait,
                   bwd_sends_to_wait>>
    /\ UNCHANGED <<cfgVars, planVars, netVars>>

MbIndexes == -1 .. (MaxLossLen + 1)
NextLoss ==
    \/ \E s \in Stages : \E mb_index \in MbIndexes : GetLoss(s, mb_index)
    \/ UpdateLosses
SpecLoss == InitLoss /\ [][NextLoss]_vars

\* what the claim says _maybe_get_loss(stage s, i) gives on the list il
Expected_get(il, s, i) ==
    IF 0 <= i /\ i < Len(il) /\ s = num_stages - 1 /\ has_backward
    THEN [raised |-> FALSE, loss |-> il[i + 1]]
    ELSE IF il # <<>> /\ (i < 0 \/ i >= Len(il))
    THEN [raised |-> TRUE, loss |-> NoLoss]
    ELSE [raised |-> FALSE, loss |-> NoLoss]

\* C21: _maybe_get_loss(stage, i) returns internal_losses[i] exactly when
\* 0 <= i < len(internal_losses) and the stage is the last one and
\* has_backward; raises RuntimeError when internal_losses is non-empty and i
\* is out of range, last stage or not; returns None otherwise; and never
\* changes internal_losses.
C21_MaybeGetLoss ==
    [][\A s \in Stages : \A i \in MbIndexes :
          GetLoss(s, i) =>
              /\ returned'[group_rank] =
                    Value(Expected_get(internal_losses[group_rank], s, i))
              /\ (pc'[group_rank] = "RuntimeError") <=>
                    (/\ internal_losses[group_rank] # <<>>
                     /\ (i < 0 \/ i >= Len(internal_losses[group_rank])))
              /\ internal_losses' = internal_losses]_vars

\* the call raised on a rank that does not own the last stage
C21_Witness ==
    /\ pc[group_rank] = "RuntimeError"
    /\ returned[group_rank] # NoValue
    /\ ~Owns(group_rank, num_stages - 1)
    /\ internal_losses[group_rank] # <<>>

\* C22: _update_losses(stages, losses): when some stage of `stages` is the
\* last one and a container was passed, it raises RuntimeError if
\* len(internal_losses) # N and leaves the container and internal_losses as
\* they were, and otherwise the container ends up equal to internal_losses,
\* its previous contents gone; when no stage is last or no container was
\* passed the container is not touched; internal_losses is empty after
\* every call that does not raise.
C22_UpdateLosses ==
    [][UpdateLosses =>
          LET r == group_rank
              il == internal_losses[r]
              some_last == \E s \in Stages :
                              Owns(r, s) /\ s = num_stages - 1
          IN  /\ (pc'[r] = "RuntimeError") <=>
                    (some_last /\ losses_given /\ Len(il) # n_microbatches)
              /\ pc'[r] = "RuntimeError" =>
                    /\ losses'[r] = losses[r]
                    /\ internal_losses'[r] = il
              /\ pc'[r] # "RuntimeError" =>
                    /\ pc'[r] = "updated"
                    /\ internal_losses'[r] = <<>>
                    /\ losses'[r] = IF some_last /\ losses_given
                                    THEN il ELSE losses[r]]_vars

\* the container of the caller was refilled with the N losses
C22_Witness ==
    /\ pc[group_rank] = "updated"
    /\ losses_given
    /\ Owns(group_rank, num_stages - 1)
    /\ Len(losses[group_rank]) = n_microbatches
    /\ \A k \in DOMAIN losses[group_rank] :
          losses[group_rank][k] # StaleLoss
    /\ internal_losses[group_rank] = <<>>
    /\ n_microbatches = MaxLossLen

(* ------------------------------- step() ------------------------------- *)
\* stage.clear_runtime_states(), as recorded in trace
clear_runtime_states == Call("clear", -1, FALSE, NoLoss)

\* the calls made on stage s since its last clear_runtime_states
RECURSIVE SinceClear(_)
SinceClear(calls) ==
    IF calls = <<>> THEN <<>>
    ELSE IF calls[Len(calls)].op = "clear" THEN <<>>
    ELSE Append(SinceClear(SubSeq(calls, 1, Len(calls) - 1)),
                calls[Len(calls)])

\* stage.output_chunks: the outputs of the forwards since the last clear
output_chunks(s) ==
    LET fwds == SelectSeq(SinceClear(trace[s]), LAMBDA c : c.op = "forward")
    IN  [k \in DOMAIN fwds |-> Output(fwds[k].mb, s)]

\* merge_chunks joins the chunks in list order
merge_outputs(chunks) == [is_none |-> FALSE, merged |-> chunks]
None == [is_none |-> TRUE, merged |-> <<>>]

\* variant: only the first stage of the list is cleared
ClearAll_first(stages, tr) ==
    [tr EXCEPT ![Head(stages)] = Append(@, clear_runtime_states)]

\* for stage in self._stages: stage.clear_runtime_states()
ClearAll(stages, tr) ==
    [s \in DOMAIN tr |->
        IF \E k \in DOMAIN stages : stages[k] = s
        THEN Append(tr[s], clear_runtime_states)
        ELSE tr[s]]

\* step() up to the call of _step_microbatches: the stages are cleared and
\* the inputs split into n_microbatches chunks
StepEnter(r) ==
    /\ Running(r, "step")
    /\ trace' = ClearAll(StagesOf(r), trace)
    /\ step_calls' = Upd(step_calls, r, step_calls[r] + 1)
    /\ pc' = Upd(pc, r, "start")
    /\ step_i' = Upd(step_i, r, 0)
    /\ stage_k' = Upd(stage_k, r, 1)
    /\ bwd_mb_index' = Upd(bwd_mb_index, r, 0)
    /\ waiting' = Upd(waiting, r, <<>>)
    /\ fwd_sends_to_wait' = Upd(fwd_sends_to_wait, r, <<>>)
    /\ bwd_sends_to_wait' = Upd(bwd_sends_to_wait, r, <<>>)
    /\ UNCHANGED <<sched, pp_group_size, n_local_stages, n_microbatches,
                   has_backward, losses_given, inputVars, ctorVars,
                   batchVars, returned>>
    /\ UNCHANGED <<internal_losses, losses, sends, recvs, batch_sizes>>
    /\ UNCHANGED planVars

\* variant: merges the outputs of the first stage of the list, last or not
step_result_first(r) == merge_outputs(output_chunks(StagesOf(r)[1]))

\* the value step() returns: the first stage of the list that is last
step_result(r) ==
    IF \E s \in Owned(r) : is_last(s)
    THEN merge_outputs(output_chunks(CHOOSE s \in Owned(r) : is_last(s)))
    ELSE None

\* _step_microbatches returned: step() returns the merged outputs
StepReturn(r) ==
    /\ Running(r, "done")
    /\ returned' = Upd(returned, r, Value(step_result(r)))
    /\ pc' = Upd(pc, r, "returned")
    /\ UNCHANGED <<sched, pp_group_size, n_local_stages, n_microbatches,
                   has_backward, losses_given, inputVars, ctorVars,
                   batchVars, step_calls>>
    /\ UNCHANGED <<step_i, stage_k, bwd_mb_index, waiting, fwd_sends_to_wait,
                   bwd_sends_to_wait, internal_losses, losses>>
    /\ UNCHANGED <<planVars, netVars>>

\* a schedule object on which step() was not called yet
Fresh ==
    /\ plan_pc = IF sched = "Interleaved1F1B" THEN "begin" ELSE "done"
    /\ MatchingInputs
    /\ Constructed
    /\ NoBatch
    /\ NoReturn
    /\ plan_rank = 0
    /\ plan_step = 0
    /\ rank_ops = <<>>
    /\ fwd_stage_mb_index = [s \in Stages |-> 0]
    /\ bwd_stage_mb_index = [s \in Stages |-> 0]
    /\ pipeline_order = <<>>
    /\ pc = [r \in Ranks |-> "step"]
    /\ step_i = [r \in Ranks |-> 0]
    /\ stage_k = [r \in Ranks |-> 1]
    /\ bwd_mb_index = [r \in Ranks |-> 0]
    /\ waiting = [r \in Ranks |-> <<>>]
    /\ fwd_sends_to_wait = [r \in Ranks |-> <<>>]
    /\ bwd_sends_to_wait = [r \in Ranks |-> <<>>]
    /\ internal_losses = [r \in Ranks |-> <<>>]
    /\ losses = [r \in Ranks |-> <<>>]
    /\ trace = [s \in Stages |-> <<>>]
    /\ sends = [ch \in Ranks \X Ranks |-> <<>>]
    /\ recvs = [ch \in Ranks \X Ranks |-> <<>>]
    /\ batch_sizes = {}

\* the schedules with at most ranks ranks and mbs microbatches; the
\* multi-stage ones have two stages per rank
Objects(ranks, mbs) ==
    /\ sched \in Schedules
    /\ pp_group_size \in 1 .. ranks
    /\ n_local_stages \in 1 .. 2
    /\ n_microbatches \in 1 .. mbs
    /\ has_backward \in BOOLEAN
    /\ losses_given \in BOOLEAN
    /\ \/ /\ sched \in {"GPipe", "1F1B"}
          /\ n_local_stages = 1
       \/ /\ sched = "LoopedBFS"
          /\ n_local_stages = 2
       \/ /\ sched = "Interleaved1F1B"
          /\ n_local_stages = 2
          /\ n_microbatches % pp_group_size = 0

InitStep == Objects(MaxStepRanks, MaxStepMicrobatches) /\ Fresh
NextStep ==
    \/ Next
    \/ \E r \in Ranks : StepEnter(r)
    \/ \E r \in Ranks : StepReturn(r)
SpecStep == InitStep /\ [][NextStep]_vars

(* ---- step() calls in a row, some of them ending with an exception ---- *)
\* the rank is inside _step_microbatches, past _check_inputs
StepEnded(r) ==
    pc[r] \in {"returned", "raised", "TypeError", "ValueError"}
InsideStep(r) == pc[r] \notin {"step", "start", "done"} /\ ~StepEnded(r)

\* a stage computation or a P2P call of rank r raises, and with it the
\* pending or next P2P call of every rank that has not finished its
\* _step_microbatches: nothing in step() or _step_microbatches catches it
Abort(r) ==
    /\ plan_pc = "done"
    /\ InsideStep(r)
    /\ pc' = [q \in Ranks |-> IF StepEnded(q) \/ pc[q] = "done"
                              THEN pc[q] ELSE "raised"]
    /\ UNCHANGED <<step_i, stage_k, bwd_mb_index, waiting, fwd_sends_to_wait,
                   bwd_sends_to_wait, internal_losses, losses>>
    /\ UNCHANGED <<cfgVars, planVars, netVars>>

\* every rank is out of step(); the caller calls step() again on the same
\* objects, with the same list as losses container or with none. The
\* record of the calls starts again; the locals of the calls that ended
\* are gone, and with the work handles the ops that were still unmatched.
NextIteration ==
    /\ \A r \in Ranks : StepEnded(r)
    /\ \A r \in Ranks : step_calls[r] < MaxStepCalls
    /\ pc' = [r \in Ranks |-> "step"]
    /\ losses_given' \in BOOLEAN
    /\ returned' = [r \in Ranks |-> NoValue]
    /\ trace' = [s \in Stages |-> <<>>]
    /\ sends' = [ch \in Ranks \X Ranks |-> <<>>]
    /\ recvs' = [ch \in Ranks \X Ranks |-> <<>>]
    /\ batch_sizes' = {}
    /\ UNCHANGED <<sched, pp_group_size, n_local_stages, n_microbatches,
                   has_backward, inputVars, ctorVars, batchVars, step_calls>>
    /\ step_i' = [r \in Ranks |-> 0]
    /\ stage_k' = [r \in Ranks |-> 1]
    /\ bwd_mb_index' = [r \in Ranks |-> 0]
    /\ waiting' = [r \in Ranks |-> <<>>]
    /\ fwd_sends_to_wait' = [r \in Ranks |-> <<>>]
    /\ bwd_sends_to_wait' = [r \in Ranks |-> <<>>]
    /\ UNCHANGED <<internal_losses, losses>>
    /\ UNCHANGED planVars

InitSteps == Objects(MaxAgainRanks, MaxAgainMicrobatches) /\ Fresh
NextSteps ==
    \/ NextStep
    \/ \E r \in Ranks : Abort(r)
    \/ NextIteration
SpecSteps == InitSteps /\ [][NextSteps]_vars

\* in this step a forward_one_chunk or backward_one_chunk call is made on
\* stage s
ComputeOn(s) ==
    /\ Len(trace'[s]) = Len(trace[s]) + 1
    /\ trace'[s][Len(trace'[s])].op \in {"forward", "backward"}
\* in this step rank r posts a P2P op
Posts(r) ==
    \E q \in Ranks : \/ Len(sends'[<<r, q>>]) > Len(sends[<<r, q>>])
                     \/ Len(recvs'[<<q, r>>]) > Len(recvs[<<q, r>>])
\* the record of rank r's current step() call starts, on every stage of
\* the rank, with clear_runtime_states
Cleared(r) ==
    /\ step_calls[r] >= 1
    /\ \A s \in Owned(r) : trace[s] # <<>> /\ trace[s][1].op = "clear"

\* C23: in every schedule, a step() call has called clear_runtime_states
\* on every stage of the rank before its first forward_one_chunk,
\* backward_one_chunk or P2P call, and internal_losses is empty after every
\* step() call that returns normally.
C23_ClearThenDrain ==
    /\ [][\A r \in Ranks :
             ((\E s \in Owned(r) : ComputeOn(s)) \/ Posts(r)) => Cleared(r)]_vars
    /\ [](\A r \in Ranks :
             pc[r] = "returned" => internal_losses[r] = <<>>)

\* a second step() call of a multi-stage schedule with a loss function
\* returned on the rank of the last stage
C23_Witness ==
    \E r \in Ranks :
        /\ pc[r] = "returned"
        /\ step_calls[r] = 2
        /\ n_local_stages = 2
        /\ has_backward
        /\ Owns(r, num_stages - 1)
        /\ \A s \in Owned(r) : Len(Fwds(s)) = n_microbatches

\* the N outputs of stage s in microbatch order, merged
AllOutputs(s) ==
    [is_none |-> FALSE,
     merged |-> [k \in 1 .. n_microbatches |-> Output(k - 1, s)]]
Configures(s) == SelectSeq(trace[s], LAMBDA c : c.op = "configure")

\* C24: step() returns the merge of the output chunks of the last stage when
\* the schedule has the last stage, the N forward outputs in microbatch
\* order, and None when it has not; GPipe without a loss function runs no
\* backward, makes no configure_data_parallel_mode call and keeps
\* internal_losses empty all along.
C24_StepResult ==
    \A r \in Ranks :
        /\ pc[r] = "returned" =>
              returned[r] = IF Owns(r, num_stages - 1)
                            THEN Value(AllOutputs(num_stages - 1))
                            ELSE Value(None)
        /\ pc[r] # "returned" => returned[r] = NoValue
        /\ (sched = "GPipe" /\ ~has_backward) =>
              /\ internal_losses[r] = <<>>
              /\ \A s \in Owned(r) : Bwds(s) = <<>> /\ Configures(s) = <<>>

\* GPipe with 4 microbatches and no loss function returned on the last
\* stage of two
C24_Witness ==
    /\ sched = "GPipe"
    /\ ~has_backward
    /\ n_microbatches = 4
    /\ pp_group_size = 2
    /\ pc[1] = "returned"
    /\ Len(returned[1][1].merged) = 4
    /\ pc[0] = "returned"

(* ---- step() calls in a row that all run to their end ---- *)
NextRepeat ==
    \/ NextStep
    \/ NextIteration
SpecRepeat == InitSteps /\ [][NextRepeat]_vars

\* the losses of one iteration, in microbatch order
IterationLosses == [k \in 1 .. n_microbatches |-> LossOf(k - 1)]

\* C25: with a loss function, step() calls in a row on the same schedule
\* with the same inputs each return and each leave in the container passed
\* to them the N losses of one iteration in microbatch order, whether the
\* call before was given a container or not.
C25_SameLossesEachCall ==
    has_backward =>
        \A r \in Ranks :
            /\ pc[r] \notin {"raised", "TypeError", "ValueError"}
            /\ (pc[r] = "returned" /\ losses_given
                  /\ Owns(r, num_stages - 1)) =>
                  losses[r] = IterationLosses

\* the second call returned with a container on the rank of the last stage
C25_Witness ==
    \E r \in Ranks :
        /\ has_backward
        /\ losses_given
        /\ pc[r] = "returned"
        /\ step_calls[r] = 2
        /\ Owns(r, num_stages - 1)
        /\ n_microbatches = 2
        /\ Len(losses[r]) = 2

\* C26: in every reachable state of a schedule object, over any sequence
\* of step() calls, calls that end with an exception part-way included,
\* internal_losses holds at most N losses.
C26_InternalLossesBounded ==
    \A r \in Ranks : Len(internal_losses[r]) <= n_microbatches

(* ---- Schedule1F1B with a loss function, on longer pipelines ---- *)
MaxCoalesceStages == 4
MaxCoalesceMicrobatches == 7

InitCoalesce ==
    /\ sched = "1F1B"
    /\ pp_group_size \in 1 .. MaxCoalesceStages
    /\ n_local_stages = 1
    /\ n_microbatches \in 1 .. MaxCoalesceMicrobatches
    /\ has_backward = TRUE
    /\ losses_given = TRUE
    /\ plan_pc = "done"
    /\ MatchingInputs
    /\ Constructed
    /\ NoBatch
    /\ NoReturn
    /\ InitRun
SpecCoalesce == InitCoalesce /\ [][Next1F1B]_vars

\* the forward activations stage s has sent on, the forward activations
\* it has posted a recv for, and the same for the gradients
WhatOn(seq, what) == Len(SelectSeq(seq, LAMBDA m : m.what = what))
FwdSent(s) ==
    IF is_last(s) THEN 0
    ELSE WhatOn(sends[<<RankOfStage(s), RankOfStage(s + 1)>>], "fwd")
BwdSent(s) ==
    IF is_first(s) THEN 0
    ELSE WhatOn(sends[<<RankOfStage(s), RankOfStage(s - 1)>>], "bwd")
\* in this step stage r runs forward_one_chunk / backward_one_chunk
RunsForward(r) == Len(Fwds(r)') = Len(Fwds(r)) + 1
RunsBackward(r) == Len(Bwds(r)') = Len(Bwds(r)) + 1
\* in this step stage r issues the batch of its backward half-step
BwdRecvBatch(r) == pc[r] = "bwd_recv" /\ pc'[r] = "backward"
\* in this step stage r issues the batch of its forward half-step
FwdRecvBatch(r) == pc[r] = "fwd_recv" /\ pc'[r] = "forward"
\* the steps of stage s that coalesce the fwd-send with the bwd-recv
CoalescedSteps(s) ==
    {t \in 0 .. (total_steps(s) - 1) :
        should_coalesce_fwd_send_bwd_recv(t, s) = T3}

LeavesBwdSend(t, s) ==
    t >= warmup_steps_1f1b(s) /\ is_1f1b_step(t + 1, s) = T3

\* C28: in 1F1B with a loss function, the backward sends of the backward at
\* step t are posted exactly once: right after that backward when not
\* (t >= warmup and is_1f1b(t+1)), otherwise in the fwd-recv batch of step
\* t+1, before the backward of step t+1; the decision after the backward at
\* step t and the one at the forward of step t+1 agree, so none is dropped
\* or posted twice.
C28_BwdSendOnce ==
    /\ [][\A r \in Ranks :
             LET i == step_i[r]
                 new == BwdSent(r)' - BwdSent(r)
                 left == Len(Bwds(r)) - BwdSent(r)
             IN  /\ new \in {0, 1}
                 /\ RunsBackward(r) =>
                       /\ is_first(r) \/ left = 0
                       /\ i = warmup_steps_1f1b(r) + Len(Bwds(r))
                       /\ (new = 1) <=>
                             (~LeavesBwdSend(i, r) /\ ~is_first(r))
                 /\ FwdRecvBatch(r) =>
                       /\ (new = 1) <=>
                             (LeavesBwdSend(i - 1, r) /\ ~is_first(r))
                       /\ is_first(r) \/ ((new = 1) <=> (left = 1))
                       /\ new = 1 =>
                             i - 1 = warmup_steps_1f1b(r) + Len(Bwds(r)) - 1
                 /\ (~RunsBackward(r) /\ ~FwdRecvBatch(r)) => new = 0]_vars
    /\ [](\A r \in Ranks :
             /\ pc[r] # "raised"
             /\ (pc[r] # "fwd_recv" /\ ~is_first(r)) =>
                    BwdSent(r) = Len(Bwds(r))
             /\ (pc[r] \in {"finish", "done"} /\ ~is_first(r)) =>
                    BwdSent(r) = n_microbatches)

\* a stage has posted the backward send of the step before in the fwd-recv
\* batch of a 1F1B step
C28_Witness ==
    \E r \in Ranks :
        /\ ~is_first(r)
        /\ pc[r] = "forward"
        /\ step_i[r] > warmup_steps_1f1b(r)
        /\ BwdSent(r) = Len(Bwds(r))
        /\ Len(Bwds(r)) >= 1

\* the batches (one work per peer) rank r is waiting for
Batches(r) == {waiting[r][k] : k \in DOMAIN waiting[r]}
\* both stages are inside a batched call
InBatches(s) == pc[s] = "backward" /\ pc[s + 1] = "forward"

\* C29: in 1F1B the coalesced batches of adjacent stages s and s+1 are
\* symmetric: the batch of stage s with the fwd-send of microbatch a and the
\* bwd-recv of microbatch b meets a batch of stage s+1 with the fwd-recv of
\* a and the bwd-send of b, and conversely.
C29_CoalescedSymmetric ==
    \A s \in Stages :
        (s + 1 \in Stages /\ InBatches(s)) =>
            \A w1 \in Batches(s), w2 \in Batches(s + 1) :
                \A a, b \in 1 .. n_microbatches :
                    /\ ( /\ Handle("send", s, s + 1, a) \in w1
                         /\ Handle("recv", s + 1, s, b) \in w1
                         /\ Handle("recv", s, s + 1, a) \in w2 )
                       => Handle("send", s + 1, s, b) \in w2
                    /\ ( /\ Handle("recv", s, s + 1, a) \in w2
                         /\ Handle("send", s + 1, s, b) \in w2
                         /\ Handle("recv", s + 1, s, b) \in w1 )
                       => Handle("send", s, s + 1, a) \in w1

\* the work w holds a send (a recv) of the given kind
HasSend(w, src, dst) == \E h \in w : h.kind = "send" /\ h.src = src /\ h.dst = dst
HasRecv(w, src, dst) == \E h \in w : h.kind = "recv" /\ h.src = src /\ h.dst = dst

\* C29 as amended: the ops of a coalesced batch are matched one by one by
\* the neighbour, and batch by batch only when N = 2*(S-s-1). The call of
\* stage s+1 with the fwd-recv of a, met by the call of stage s with the
\* fwd-send of a and the bwd-recv of b, holds the bwd-send of b when
\* N = 2*(S-s-1), the bwd-send of b+1 and not of b when N > 2*(S-s-1), and
\* no bwd-send when N < 2*(S-s-1). The call of stage s with the bwd-recv of
\* b, met by the call of stage s+1 with the fwd-recv of a and the bwd-send
\* of b, holds the fwd-send of a when N = 2*(S-s-1), and otherwise the
\* fwd-send of a+1 when a+1 < N and no fwd-send when a is the last.
C29_CoalescedMatched ==
    \A s \in Stages :
        (s + 1 \in Stages /\ InBatches(s)) =>
            LET w0 == 2 * (num_stages - s - 1)
            IN  \A w1 \in Batches(s), w2 \in Batches(s + 1) :
                \A a, b \in 1 .. n_microbatches :
                    /\ ( /\ Handle("send", s, s + 1, a) \in w1
                         /\ Handle("recv", s + 1, s, b) \in w1
                         /\ Handle("recv", s, s + 1, a) \in w2 )
                       => IF n_microbatches = w0
                          THEN Handle("send", s + 1, s, b) \in w2
                          ELSE IF n_microbatches > w0
                          THEN /\ Handle("send", s + 1, s, b + 1) \in w2
                               /\ Handle("send", s + 1, s, b) \notin w2
                          ELSE ~HasSend(w2, s + 1, s)
                    /\ ( /\ Handle("recv", s, s + 1, a) \in w2
                         /\ Handle("send", s + 1, s, b) \in w2
                         /\ Handle("recv", s + 1, s, b) \in w1 )
                       => IF n_microbatches = w0
                          THEN Handle("send", s, s + 1, a) \in w1
                          ELSE IF a < n_microbatches
                          THEN /\ Handle("send", s, s + 1, a + 1) \in w1
                               /\ Handle("send", s, s + 1, a) \notin w1
                          ELSE ~HasSend(w1, s, s + 1)

\* two adjacent stages wait in coalesced batches that share a forward
\* transfer but not a backward transfer
C29_Witness ==
    \E s \in Stages :
        /\ s + 1 \in Stages
        /\ InBatches(s)
        /\ n_microbatches > 2 * (num_stages - s - 1)
        /\ \E w1 \in Batches(s), w2 \in Batches(s + 1) :
              \E a, b \in 1 .. n_microbatches :
                  /\ Handle("send", s, s + 1, a) \in w1
                  /\ Handle("recv", s + 1, s, b) \in w1
                  /\ Handle("recv", s, s + 1, a) \in w2
                  /\ Handle("send", s + 1, s, b + 1) \in w2

(* ---- the single-stage schedules ---- *)
InitSingle == Init /\ sched \in {"GPipe", "1F1B"}
NextSingle == NextGPipe \/ Next1F1B
SpecSingle == InitSingle /\ [][NextSingle]_vars

\* the handles of the sends rank r has posted
SendHandles(r) ==
    UNION {{Handle("send", r, q, k) : k \in 1 .. Len(sends[<<r, q>>])} :
              q \in Ranks}
WorksOf(works) == UNION {works[k] : k \in DOMAIN works}
\* the handles rank r holds: of the batch it waits for and of the two lists
Retained(r) ==
    WorksOf(waiting[r]) \cup WorksOf(fwd_sends_to_wait[r])
        \cup WorksOf(bwd_sends_to_wait[r])
FailedCall(r) == pc[r] \in {"raised", "TypeError", "ValueError"}
BackwardPhase(r) ==
    pc[r] \in {"bwd_recv", "backward", "update_losses", "bwd_sends_wait"}

\* C30: in GPipe and 1F1B every send work handle is kept until it is waited
\* for, and is waited for before _step_microbatches returns; in GPipe the N
\* forwards come before the first backward, the fwd-send handles are waited
\* for after the last forward and before the first backward (before the
\* return without a loss function), and the losses are drained before the
\* bwd-send handles are waited for.
C30_SendsWaited ==
    /\ [](\A r \in Ranks :
             /\ ~FailedCall(r) =>
                   \A h \in SendHandles(r) : Complete(h) \/ h \in Retained(r)
             /\ pc[r] = "done" => \A h \in SendHandles(r) : Complete(h)
             /\ (sched = "GPipe" /\ (BackwardPhase(r) \/ pc[r] = "done")) =>
                   /\ Len(Fwds(r)) = n_microbatches
                   /\ is_last(r) \/ FwdSent(r) = n_microbatches
                   /\ AllDone(fwd_sends_to_wait[r])
             /\ (sched = "GPipe" /\ pc[r] = "bwd_sends_wait") =>
                   /\ internal_losses[r] = <<>>
                   /\ (losses_given /\ is_last(r)) =>
                         Len(losses[r]) = n_microbatches)
    /\ [][\A r \in Ranks :
             /\ (sched = "GPipe" /\ RunsBackward(r)) => BackwardPhase(r)
             /\ (sched = "GPipe" /\ RunsForward(r)) => Bwds(r) = <<>>
             /\ (sched = "GPipe" /\ has_backward
                   /\ pc[r] # "done" /\ pc'[r] = "done") =>
                      /\ pc[r] = "bwd_sends_wait"
                      /\ AllDone(bwd_sends_to_wait[r])]_vars

\* a middle stage that deferred forward and backward sends has returned
C30_Witness ==
    \E r \in Ranks :
        /\ pc[r] = "done"
        /\ has_backward
        /\ ~is_first(r)
        /\ ~is_last(r)
        /\ Len(bwd_sends_to_wait[r]) >= 1
        /\ Len(fwd_sends_to_wait[r]) >= 1

(* ---- ScheduleLoopedBFS alone ---- *)
InitBFS == Init /\ sched = "LoopedBFS"
NextBFS ==
    \/ \E r \in Ranks : EnterBFS(r)
    \/ \E r \in Ranks : BFSFwdRecv(r)
    \/ \E r \in Ranks : BFSForward(r)
    \/ \E r \in Ranks : BFSBwdRecv(r)
    \/ \E r \in Ranks : BFSBackward(r)
    \/ \E r \in Ranks : BFSFinish(r)
SpecBFS == InitBFS /\ [][NextBFS]_vars

\* in this step a call is recorded on stage s; the call
CallOn(s) == Len(trace'[s]) = Len(trace[s]) + 1
NewCall(s) == trace'[s][Len(trace'[s])]
\* the local stages of rank r before and after position k of the list
Before(r, k) == {StagesOf(r)[j] : j \in 1 .. (k - 1)}
After(r, k) == {StagesOf(r)[j] : j \in (k + 1) .. n_local_stages}

\* C31: one Looped BFS iteration on a rank runs, stage by stage in list
\* order, the N forwards of the stage in ascending microbatch order, then,
\* stage by stage in reverse list order, the N backwards of the stage in
\* ascending microbatch order; no backward of the rank starts before its
\* last forward, and last_backward = True is configured on microbatch N-1
\* of each stage.
C31_BFSOrder ==
    /\ [][\A r \in Ranks : \A k \in 1 .. n_local_stages :
             LET s == StagesOf(r)[k]
             IN  CallOn(s) =>
                    \/ /\ NewCall(s).op = "forward"
                       /\ NewCall(s).mb = Len(Fwds(s))
                       /\ \A p \in Before(r, k) :
                             Len(Fwds(p)) = n_microbatches
                       /\ \A q \in After(r, k) : Fwds(q) = <<>>
                       /\ \A o \in Owned(r) :
                             Bwds(o) = <<>> /\ Configures(o) = <<>>
                    \/ /\ NewCall(s).op \in {"configure", "backward"}
                       /\ NewCall(s).mb \in {-1, Len(Bwds(s))}
                       /\ NewCall(s).op = "backward" =>
                             /\ NewCall(s).mb = Len(Bwds(s))
                             /\ Len(Configures(s)) = Len(Bwds(s)) + 1
                       /\ NewCall(s).op = "configure" =>
                             /\ Len(Configures(s)) = Len(Bwds(s))
                             /\ NewCall(s).last_backward =
                                   (Len(Bwds(s)) = n_microbatches - 1)
                       /\ \A o \in Owned(r) :
                             Len(Fwds(o)) = n_microbatches
                       /\ \A q \in After(r, k) :
                             Len(Bwds(q)) = n_microbatches
                       /\ \A p \in Before(r, k) :
                             Bwds(p) = <<>> /\ Configures(p) = <<>>]_vars
    /\ [](\A r \in Ranks :
             (sched = "LoopedBFS" /\ pc[r] \in {"update_losses", "done"}) =>
                \A o \in Owned(r) :
                    /\ Len(Fwds(o)) = n_microbatches
                    /\ Len(Bwds(o)) = n_microbatches)

\* a rank has run the backwards of its last local stage and is in the
\* backwards of an earlier one
C31_Witness ==
    /\ sched = "LoopedBFS"
    /\ n_microbatches >= 2
    /\ \E r \in Ranks :
          /\ stage_k[r] = 1
          /\ n_local_stages >= 2
          /\ Len(Bwds(StagesOf(r)[1])) = 1
          /\ Len(Bwds(StagesOf(r)[n_local_stages])) = n_microbatches

\* C32: in Looped BFS every work handle of a fwd-send or bwd-send batch has
\* been waited for when _step_microbatches returns, so every send the rank
\* posted is complete at the return.
C32_BFSSendsWaited ==
    \A r \in Ranks :
        (sched = "LoopedBFS" /\ pc[r] = "done") =>
            \A h \in SendHandles(r) : Complete(h)

\* C33: n_microbatches is fixed at construction: no step of a
\* _step_microbatches call of any of the four schedules changes it, whatever
\* the lengths of the argument lists.
C33_NMicrobatchesFixed == [][n_microbatches' = n_microbatches]_vars

\* the entries of a row that hold a computation
Computations(row) == {k \in DOMAIN row : row[k] # NoOp}

\* C34: in Interleaved 1F1B every stage index the planner writes into row r
\* is a stage of rank r (one of k*G + r), and every stage looked up at a
\* time step of rank r (of its own action, stage s+1 for a FORWARD on
\* s # num_stages-1 in the previous rank's row, stage s-1 for a BACKWARD on
\* s # 0 in the next rank's row) is a stage of rank r: no lookup fails and
\* no computation type is unknown.
C34_StagesOwned ==
    /\ \A k \in Computations(rank_ops) :
          /\ rank_ops[k].type \in {FORWARD, BACKWARD}
          /\ Owns(plan_rank, rank_ops[k].stage)
    /\ \A r \in Ranks :
          r + 1 \in DOMAIN pipeline_order =>
             \A k \in Computations(pipeline_order[r + 1]) :
                /\ pipeline_order[r + 1][k].type \in {FORWARD, BACKWARD}
                /\ Owns(r, pipeline_order[r + 1][k].stage)
    /\ plan_pc = "done" =>
          \A r \in Ranks :
             \A time_step \in 0 .. (Len(pipeline_order[r + 1]) - 1) :
                /\ ~PrevRecv(r, ActionAt(pipeline_order[prev_rank(r) + 1],
                                         time_step)).raised
                /\ ~NextRecv(r, ActionAt(pipeline_order[next_rank(r) + 1],
                                         time_step)).raised

\* a built plan in which rank 0 looks up the stage after the last stage of
\* the first loop, and the last rank the stage before the first stage of
\* the second loop
C34_Witness ==
    /\ plan_pc = "done"
    /\ pp_group_size >= 3
    /\ \E time_step \in 0 .. (Len(pipeline_order[1]) - 1) :
          LET a == ActionAt(pipeline_order[prev_rank(0) + 1], time_step)
          IN  a # NoOp /\ a.type = FORWARD /\ a.stage = pp_group_size - 1
    /\ \E time_step \in 0 .. (Len(pipeline_order[pp_group_size]) - 1) :
          LET a == ActionAt(pipeline_order[next_rank(pp_group_size - 1) + 1],
                            time_step)
          IN  a # NoOp /\ a.type = BACKWARD /\ a.stage = pp_group_size

\* C35 as stated: Looped BFS is deadlock-free: until every rank has
\* finished its forward phase and its backward phase and returned from
\* _step_microbatches, no rank has raised and some rank can take its next
\* step.
C35_BFSNeverStuck == AllReturned \/ (NoneRaised /\ ENABLED NextBFS)

\* C35: the same, when a loss function is given or no losses list is
\* passed; each step advances a rank in its finite loops, so every rank
\* returns.
C35_BFSNeverStuckValid ==
    (has_backward \/ ~losses_given) =>
        (AllReturned \/ (NoneRaised /\ ENABLED NextBFS))

\* a rank waits for the gradient of its last local stage while the sends
\* of its forward phase are not all matched
C35_Witness ==
    /\ sched = "LoopedBFS"
    /\ has_backward
    /\ \E r \in Ranks :
          /\ pc[r] = "backward"
          /\ stage_k[r] = n_local_stages
          /\ ~AllDone(waiting[r])
          /\ \E h \in SendHandles(r) : ~Complete(h)

\* the assertion of a step predicate fails in what rank r evaluates next
AssertionFails(r) ==
    /\ sched = "1F1B"
    /\ \/ /\ pc[r] \in {"forward", "bwd_recv"}
          /\ should_coalesce_fwd_send_bwd_recv(step_i[r], r) = E3
       \/ /\ pc[r] = "forward"
          /\ F1BAfterForward(step_i[r], r).pc = "raised"
       \/ /\ pc[r] = "backward"
          /\ \/ should_coalesce_bwd_send_fwd_recv(step_i[r], r) = E3
             \/ F1BLoop(step_i[r] + 1, r).pc = "raised"

\* C36: in 1F1B no assertion inside the step predicates (step_has_forward:
\* i >= 0; step_has_backward: i < total_steps) fails during
\* _step_microbatches, for every number of stages, every stage index, every
\* N >= 1, with and without a loss_fn; a forward-only run on the last stage
\* completes its N forwards and returns.
C36_NoAssertionFails == \A r \in Ranks : ~AssertionFails(r)

AboutBackward(r) ==
    IF plan_pc # "done" THEN {}
    ELSE IF sched = "GPipe" /\ pc[r] = "backward"
    THEN {[stage |-> r, mb |-> step_i[r]]}
    ELSE IF sched = "1F1B" /\ pc[r] = "backward"
    THEN {[stage |-> r, mb |-> bwd_mb_index[r]]}
    ELSE IF sched = "LoopedBFS" /\ pc[r] = "backward"
    THEN {[stage |-> StagesOf(r)[stage_k[r]], mb |-> step_i[r]]}
    ELSE IF sched = "Interleaved1F1B" /\ pc[r] = "compute"
    THEN LET action == ActionAt(pipeline_order[r + 1], step_i[r])
         IN  IF action # NoOp /\ action.type = BACKWARD
                  /\ Owns(r, action.stage)
             THEN {[stage |-> action.stage, mb |-> action.mb]}
             ELSE {}
    ELSE {}

\* C38: in an iteration that starts with empty internal_losses,
\* _maybe_get_loss never raises in any schedule: whenever a backward for
\* microbatch i is about to run on a rank whose internal_losses is
\* non-empty, at least i+1 losses have been appended.
C38_GetLossNeverRaises ==
    \A r \in Ranks : \A b \in AboutBackward(r) :
        /\ ~maybe_get_loss(internal_losses[r], b.stage, b.mb).raised
        /\ internal_losses[r] # <<>> =>
              Len(internal_losses[r]) >= b.mb + 1

\* the rank owning the last stage is about to run the backward of a
\* microbatch other than the first on a stage that is not the last one,
\* with losses in its list
C38_Witness ==
    \E r \in Ranks : \E b \in AboutBackward(r) :
        /\ internal_losses[r] # <<>>
        /\ ~is_last(b.stage)
        /\ b.mb >= 1

\* the slots of row that hold the computation of type t on (mb, s)
SlotsOf(row, t, mb, s) == {k \in DOMAIN row : row[k] = Slot(t, mb, s)}

\* every BACKWARD in row comes strictly after the FORWARD of the same
\* microbatch on the same stage
BackwardAfterForward(row) ==
    \A k \in Computations(row) :
        row[k].type = BACKWARD =>
            \E j \in 1 .. (k - 1) :
                row[j] = Slot(FORWARD, row[k].mb, row[k].stage)

\* C39: in every row of the Interleaved 1F1B pipeline_order, for every
\* owned stage s and microbatch i, the slot holding BACKWARD(i, s) comes
\* strictly after the slot holding FORWARD(i, s), for all G >= 2, L >= 2
\* and N a multiple of G (N = G included, where the warmup is clamped to
\* N*L).
C39_BackwardAfterForward ==
    /\ BackwardAfterForward(rank_ops)
    /\ \A r \in Ranks :
          r + 1 \in DOMAIN pipeline_order =>
             LET row == pipeline_order[r + 1]
             IN  /\ BackwardAfterForward(row)
                 /\ \A s \in Owned(r) : \A i \in 0 .. (n_microbatches - 1) :
                       /\ SlotsOf(row, FORWARD, i, s) # {}
                       /\ SlotsOf(row, BACKWARD, i, s) # {}
                       /\ \A f \in SlotsOf(row, FORWARD, i, s) :
                             \A b \in SlotsOf(row, BACKWARD, i, s) : f < b

\* a built plan with N = G, where the warmup of rank 0 is clamped to N*L
\* and every backward of its row is a cooldown step
C39_Witness ==
    /\ plan_pc = "done"
    /\ n_microbatches = pp_group_size
    /\ (n_local_stages - 1) * pp_group_size + 2 * (pp_group_size - 1)
          > n_microbatches * n_local_stages
    /\ warmup_steps(0) = n_microbatches * n_local_stages
    /\ fwd_bwd_steps(0) = 0

\* C40: no schedule ever hands an empty op list to the transport:
\* _batch_p2p, and the direct batch_isend_irecv call of Interleaved 1F1B,
\* is only reached with at least one P2P op, on every path of GPipe, 1F1B,
\* Looped BFS and Interleaved 1F1B, first and last stages whose get_*_ops
\* return empty lists included.
C40_NoEmptyBatch == \A size \in batch_sizes : size >= 1

\* every rank has returned, first and last stage included, and batches of
\* one op and of two ops were handed to the transport
C40_Witness ==
    /\ AllReturned
    /\ pp_group_size >= 2
    /\ 1 \in batch_sizes
    /\ 2 \in batch_sizes

====
